---- MODULE Spec2Model ----
(***************************************************************************)
(* A model of the Node.js binding of TORM (sdks/nodejs/src): the Model     *)
(* facade over a key-value store, its schema validator, the in-memory      *)
(* QueryBuilder and the MigrationRunner; and the filter predicate of the   *)
(* Go binding (sdks/go).  An async method is a sequence of steps, each     *)
(* from the answer of one awaited command to the answer of the next, made  *)
(* by a caller that awaits each call or by two callers at once.            *)
(*                                                                         *)
(* JavaScript values are tagged records [t, n, s].  A string is the        *)
(* sequence of its UTF-16 code units, so that length, lexicographic order  *)
(* and string-to-number conversion are computed as the engine computes     *)
(* them.  Numbers are integers, plus NaN as a value of its own.  The       *)
(* members an object inherits from Object.prototype are values too: the    *)
(* built-in functions, and Object.prototype itself.                        *)
(***************************************************************************)
EXTENDS Integers, Sequences, FiniteSets, TLC

VARIABLES
  vSchema,    \* validator runs: the schema handed to validate
  vData,      \* validator runs: the candidate
  vResult,    \* validator runs: outcome of validate, or Pending
  store,      \* the backing store: key -> JSON text
  now,        \* the wall clock read by Date.now() / new Date()
  cfg,        \* the Model's schema and options.validate
  ret,        \* the facade call that took the last step and what it returned
  fetched,    \* query runs: the sequence model.find() hands to exec
  qb,         \* query runs: the QueryBuilder's fields
  qResult,    \* query runs: what exec returned, or Pending
  mig,        \* migration runs: the directory, the applied list, the call of the last step
  calls       \* the callers of the facade or of the runner: each one's call in
              \* flight with its position and locals, or the call it made last

vars == <<vSchema, vData, vResult, store, now, cfg, ret, fetched, qb, qResult, mig, calls>>

-----------------------------------------------------------------------------
(* JavaScript values *)

Undef == [t |-> "undefined", n |-> 0, s |-> <<>>]
Null == [t |-> "null", n |-> 0, s |-> <<>>]
NaN == [t |-> "nan", n |-> 0, s |-> <<>>]
Num(n) == [t |-> "number", n |-> n, s |-> <<>>]
Str(s) == [t |-> "string", n |-> 0, s |-> s]
Bool(b) == [t |-> "boolean", n |-> IF b THEN 1 ELSE 0, s |-> <<>>]
Arr(s) == [t |-> "array", n |-> 0, s |-> s]

\* A built-in function, by its name: String(f) is its source text and f === f
NativeFunction(name) == [t |-> "function", n |-> 0, s |-> name]

\* Object.prototype, an object with no enumerable property; and the object
\* JSON.parse makes of its text "{}", which is identical to no other value
ObjectPrototype == [t |-> "object", n |-> 1, s |-> <<>>]
EmptyObject == [t |-> "object", n |-> 0, s |-> <<>>]

\* typeof value
TypeOf(v) ==
  CASE v.t = "undefined" -> "undefined"
    [] v.t \in {"number", "nan"} -> "number"
    [] v.t = "string" -> "string"
    [] v.t = "boolean" -> "boolean"
    [] v.t = "function" -> "function"
    [] OTHER -> "object"

\* Array.isArray(value) ? 'array' : typeof value
ActualType(v) == IF v.t = "array" THEN "array" ELSE TypeOf(v)

\* value === undefined || value === null
IsNullish(v) == v.t \in {"undefined", "null"}

IsDigit(c) == c >= 48 /\ c <= 57
IsAlpha(c) == (c >= 65 /\ c <= 90) \/ (c >= 97 /\ c <= 122)
\* White space and line terminators: what ToNumber and trim() strip and the
\* \s of a regular expression matches
IsSpace(c) ==
  \/ c \in {9, 10, 11, 12, 13, 32, 160, 5760, 8232, 8233, 8239, 8287, 12288, 65279}
  \/ (c >= 8192 /\ c <= 8202)

RECURSIVE DigitsValue(_)
DigitsValue(s) ==
  IF Len(s) = 0 THEN 0
  ELSE 10 * DigitsValue(SubSeq(s, 1, Len(s) - 1)) + (s[Len(s)] - 48)

RECURSIVE TrimLeft(_)
TrimLeft(s) == IF Len(s) > 0 /\ IsSpace(s[1]) THEN TrimLeft(Tail(s)) ELSE s

RECURSIVE TrimRight(_)
TrimRight(s) ==
  IF Len(s) > 0 /\ IsSpace(s[Len(s)]) THEN TrimRight(SubSeq(s, 1, Len(s) - 1)) ELSE s

Trim(s) == TrimRight(TrimLeft(s))

\* ToNumber of a string: white space is trimmed, the empty string is 0, a run of
\* decimal digits is its value, anything else is NaN.  (Signs, fractions,
\* exponents, 0x/0o/0b literals and "Infinity" are not among the strings used.)
StringToNumber(s) ==
  LET u == Trim(s) IN
  IF \A i \in 1..Len(u) : IsDigit(u[i]) THEN Num(DigitsValue(u)) ELSE NaN

\* ToNumber of a primitive
ToNumber(v) ==
  CASE v.t = "number" -> v
    [] v.t = "null" -> Num(0)
    [] v.t = "boolean" -> Num(v.n)
    [] v.t = "string" -> StringToNumber(v.s)
    [] OTHER -> NaN

\* a < b on strings: code unit by code unit, a proper prefix first
StrLess(a, b) ==
  \E k \in 1..(Len(b)) :
    /\ k <= Len(a) + 1
    /\ \A i \in 1..(k - 1) : a[i] = b[i]
    /\ (k = Len(a) + 1 \/ a[k] < b[k])

RECURSIVE DigitsOf(_)
DigitsOf(n) == IF n < 10 THEN <<48 + n>> ELSE Append(DigitsOf(n \div 10), 48 + (n % 10))

\* String(v) of a primitive, of a built-in function ("function toString() {
\* [native code] }") and of an object without a toString of its own
\* ("[object Object]")
PrimToString(v) ==
  CASE v.t = "string" -> v.s
    [] v.t = "number" -> IF v.n < 0 THEN <<45>> \o DigitsOf(-v.n) ELSE DigitsOf(v.n)
    [] v.t = "nan" -> <<78, 97, 78>>
    [] v.t = "null" -> <<110, 117, 108, 108>>
    [] v.t = "boolean" -> IF v.n = 1 THEN <<116, 114, 117, 101>>
                          ELSE <<102, 97, 108, 115, 101>>
    [] v.t = "function" ->
         <<102, 117, 110, 99, 116, 105, 111, 110, 32>> \o v.s
           \o <<40, 41, 32, 123, 32, 91, 110, 97, 116, 105, 118, 101, 32, 99, 111, 100,
                101, 93, 32, 125>>
    [] v.t = "object" -> <<91, 111, 98, 106, 101, 99, 116, 32, 79, 98, 106, 101, 99, 116, 93>>
    [] OTHER -> <<117, 110, 100, 101, 102, 105, 110, 101, 100>>

\* Array.prototype.join(","): null and undefined elements give the empty
\* string, every other element its String(), an array its own join
RECURSIVE JoinFrom(_, _)
JoinFrom(a, i) ==
  IF i > Len(a) THEN <<>>
  ELSE (IF i > 1 THEN <<44>> ELSE <<>>)
       \o (IF IsNullish(a[i]) THEN <<>>
           ELSE IF a[i].t = "array" THEN JoinFrom(a[i].s, 1)
           ELSE PrimToString(a[i]))
       \o JoinFrom(a, i + 1)

\* String(v)
ToStringJS(v) == IF v.t = "array" THEN JoinFrom(v.s, 1) ELSE PrimToString(v)

\* ToPrimitive: an array, a function or an object becomes its string
ToPrimitive(v) == IF v.t \in {"array", "function", "object"} THEN Str(ToStringJS(v)) ELSE v

\* The abstract relational comparison a < b: "true", "false" or "undefined" (an
\* operand converted to NaN).  Two strings are compared as strings, anything
\* else as numbers.
RelCompare(a, b) ==
  LET pa == ToPrimitive(a)
      pb == ToPrimitive(b)
  IN  IF pa.t = "string" /\ pb.t = "string"
      THEN (IF StrLess(pa.s, pb.s) THEN "true" ELSE "false")
      ELSE LET x == ToNumber(pa)
               y == ToNumber(pb)
           IN  IF x.t = "nan" \/ y.t = "nan" THEN "undefined"
               ELSE IF x.n < y.n THEN "true" ELSE "false"

JsLt(a, b) == RelCompare(a, b) = "true"
JsGt(a, b) == RelCompare(b, a) = "true"
JsLte(a, b) == RelCompare(b, a) = "false"
JsGte(a, b) == RelCompare(a, b) = "false"

\* a === b.  NaN is not equal to itself.  An array is equal only to itself, and
\* an array or object parsed from the store is never the one a caller holds; a
\* built-in function and Object.prototype are the same for every holder.
StrictEquals(a, b) == a.t # "nan" /\ a.t # "array" /\ a # EmptyObject /\ a = b

-----------------------------------------------------------------------------
(* Strings used as inputs (code units) *)

S_Alice == <<65, 108, 105, 99, 101>>                      \* "Alice"
S_Al == <<65, 108>>                                       \* "Al"
S_Mail == <<97, 64, 98, 46, 99, 111>>                     \* "a@b.co"
S_Url == <<97, 98, 58, 99>>                               \* "ab:c"
S_30 == <<51, 48>>                                        \* "30"
S_Sku == <<76, 65, 80, 45, 49, 50, 51, 52, 53>>           \* "LAP-12345"
S_al == <<97, 108>>                                       \* "al"
S_UrlTab == <<97, 9, 98, 58, 99>>                         \* "a\tb:c"
S_MailNbsp == <<97, 160, 64, 98, 46, 99, 111>>            \* "a\u00a0@b.co"
S_Nbsp30 == <<160, 51, 48>>                               \* "\u00a030"

-----------------------------------------------------------------------------
(* Validation rules *)

\* An optional number (rules.minLength !== undefined ...): <<>> or <<n>>
None == <<>>
Some(n) == <<n>>

Rule == [type |-> "none", required |-> FALSE, minLength |-> None, maxLength |-> None,
         min |-> None, max |-> None, pattern |-> "none", email |-> FALSE,
         url |-> FALSE, validate |-> "none"]

\* /^[^\s@]+@[^\s@]+\.[^\s@]+$/.test(email)
isValidEmail(s) ==
  /\ \A i \in 1..Len(s) : ~IsSpace(s[i])
  /\ \E i \in 2..(Len(s) - 1) :
       /\ s[i] = 64
       /\ \A j \in 1..Len(s) : j # i => s[j] # 64
       /\ \E d \in (i + 2)..(Len(s) - 1) : s[d] = 46

\* new URL(url) succeeds.  The parser strips the C0 control characters and
\* spaces (code units 0..32) at both ends and removes every tab, line feed
\* and carriage return; without a base what is left must start with a scheme,
\* alpha (alpha | digit | + | - | .)* ":".  (The strings used hold no '/' or
\* '\' and no special scheme, so what follows the colon is an opaque path,
\* which always parses.)
isValidUrl(s) ==
  LET inner == {i \in 1..Len(s) : s[i] > 32}
      first == CHOOSE i \in inner : \A j \in inner : i <= j
      last == CHOOSE i \in inner : \A j \in inner : i >= j
      stripped == IF inner = {} THEN <<>> ELSE SubSeq(s, first, last)
      u == SelectSeq(stripped, LAMBDA ch : ch \notin {9, 10, 13})
  IN
  \E c \in 2..Len(u) :
    /\ u[c] = 58
    /\ IsAlpha(u[1])
    /\ \A i \in 2..(c - 1) : IsAlpha(u[i]) \/ IsDigit(u[i]) \/ u[i] \in {43, 45, 46}

\* rules.pattern.test(value); "sku" is /^[A-Z]{3}-\d{5}$/
PatternTest(p, s) ==
  CASE p = "sku" ->
         /\ Len(s) = 9
         /\ \A i \in 1..3 : s[i] >= 65 /\ s[i] <= 90
         /\ s[4] = 45
         /\ \A i \in 5..9 : IsDigit(s[i])
    [] OTHER -> TRUE

\* rules.validate(value); "positive" is (value) => value > 0 and "slug" is
\* (value) => /^[a-z0-9_]+$/.test(value)
CustomPredicate(p, v) ==
  CASE p = "positive" -> JsGt(v, Num(0))
    [] p = "slug" ->
         LET u == ToStringJS(v) IN
         /\ Len(u) > 0
         /\ \A i \in 1..Len(u) : (u[i] >= 97 /\ u[i] <= 122) \/ IsDigit(u[i]) \/ u[i] = 95
    [] OTHER -> TRUE

\* The checks with the custom predicate run first
CheckOrderCustomFirst ==
  <<"custom", "type", "minLength", "maxLength", "pattern", "email", "url", "min", "max">>

\* The checks of one field after the required check, in source order.
CheckOrder ==
  <<"type", "minLength", "maxLength", "pattern", "email", "url", "min", "max", "custom">>

\* Whether the check is reached for this value: the guards that do not fail it.
CheckApplies(check, rules, v) ==
  CASE check = "type" -> rules.type # "none"
    [] check = "minLength" -> TypeOf(v) = "string" /\ rules.minLength # None
    [] check = "maxLength" -> TypeOf(v) = "string" /\ rules.maxLength # None
    [] check = "pattern" -> TypeOf(v) = "string" /\ rules.pattern # "none"
    [] check = "email" -> TypeOf(v) = "string" /\ rules.email
    [] check = "url" -> TypeOf(v) = "string" /\ rules.url
    [] check = "min" -> TypeOf(v) = "number" /\ rules.min # None
    [] check = "max" -> TypeOf(v) = "number" /\ rules.max # None
    [] OTHER -> rules.validate # "none"

\* Whether the check throws.
CheckFails(check, rules, v) ==
  CASE check = "type" -> ActualType(v) # rules.type
    [] check = "minLength" -> Len(v.s) < rules.minLength[1]
    [] check = "maxLength" -> Len(v.s) > rules.maxLength[1]
    [] check = "pattern" -> ~PatternTest(rules.pattern, v.s)
    [] check = "email" -> ~isValidEmail(v.s)
    [] check = "url" -> ~isValidUrl(v.s)
    [] check = "min" -> JsLt(v, Num(rules.min[1]))
    [] check = "max" -> JsGt(v, Num(rules.max[1]))
    [] OTHER -> ~CustomPredicate(rules.validate, v)

NoError == [field |-> "", kind |-> "none"]
Error(field, kind) == [field |-> field, kind |-> kind]

\* The members of Object.prototype, which every object literal and every
\* parsed document inherits
Inherited(field) ==
  CASE field = "constructor" -> NativeFunction(<<79, 98, 106, 101, 99, 116>>)
    [] field = "__defineGetter__" ->
         NativeFunction(<<95, 95, 100, 101, 102, 105, 110, 101, 71, 101, 116, 116, 101, 114, 95, 95>>)
    [] field = "__defineSetter__" ->
         NativeFunction(<<95, 95, 100, 101, 102, 105, 110, 101, 83, 101, 116, 116, 101, 114, 95, 95>>)
    [] field = "hasOwnProperty" ->
         NativeFunction(<<104, 97, 115, 79, 119, 110, 80, 114, 111, 112, 101, 114, 116, 121>>)
    [] field = "__lookupGetter__" ->
         NativeFunction(<<95, 95, 108, 111, 111, 107, 117, 112, 71, 101, 116, 116, 101, 114, 95, 95>>)
    [] field = "__lookupSetter__" ->
         NativeFunction(<<95, 95, 108, 111, 111, 107, 117, 112, 83, 101, 116, 116, 101, 114, 95, 95>>)
    [] field = "isPrototypeOf" ->
         NativeFunction(<<105, 115, 80, 114, 111, 116, 111, 116, 121, 112, 101, 79, 102>>)
    [] field = "propertyIsEnumerable" ->
         NativeFunction(<<112, 114, 111, 112, 101, 114, 116, 121, 73, 115, 69, 110, 117, 109, 101,
                          114, 97, 98, 108, 101>>)
    [] field = "toString" -> NativeFunction(<<116, 111, 83, 116, 114, 105, 110, 103>>)
    [] field = "valueOf" -> NativeFunction(<<118, 97, 108, 117, 101, 79, 102>>)
    [] field = "toLocaleString" ->
         NativeFunction(<<116, 111, 76, 111, 99, 97, 108, 101, 83, 116, 114, 105, 110, 103>>)
    [] field = "__proto__" -> ObjectPrototype
    [] OTHER -> Undef

\* data[field]: the object's own member, else the inherited one, else undefined
Get(obj, field) == IF field \in DOMAIN obj THEN obj[field] ELSE Inherited(field)

\* The checks of one field from check i on; trace lists, in order, every check
\* evaluated so far as <<field, check>>.
RECURSIVE validateChecks(_, _, _, _, _)
validateChecks(field, rules, v, i, trace) ==
  IF i > Len(CheckOrder) THEN [error |-> NoError, trace |-> trace]
  ELSE LET check == CheckOrder[i] IN
       IF ~CheckApplies(check, rules, v)
       THEN validateChecks(field, rules, v, i + 1, trace)
       ELSE LET t2 == Append(trace, <<field, check>>) IN
            IF CheckFails(check, rules, v)
            THEN [error |-> Error(field, check), trace |-> t2]
            ELSE validateChecks(field, rules, v, i + 1, t2)

\* One iteration of the loop over Object.entries(this.schema)
validateField(field, rules, data, trace) ==
  LET v == Get(data, field)
      t1 == Append(trace, <<field, "required">>)
  IN  IF rules.required /\ IsNullish(v)
      THEN [error |-> Error(field, "required"), trace |-> t1]
      ELSE IF IsNullish(v) THEN [error |-> NoError, trace |-> t1]
      ELSE validateChecks(field, rules, v, 1, t1)

\* validateFrom collecting over all fields instead of throwing at the first
\* failure: the error reported is the last one found
RECURSIVE validateFromAll(_, _, _, _)
validateFromAll(schema, data, i, trace) ==
  IF i > Len(schema) THEN [error |-> NoError, trace |-> trace]
  ELSE LET r == validateField(schema[i].field, schema[i].rules, data, trace)
           rest == validateFromAll(schema, data, i + 1, r.trace)
       IN  IF rest.error # NoError THEN rest
           ELSE [error |-> r.error, trace |-> rest.trace]

\* Model.validate from schema entry i on.  A schema is the sequence of its
\* entries [field, rules] in insertion order.
RECURSIVE validateFrom(_, _, _, _)
validateFrom(schema, data, i, trace) ==
  IF i > Len(schema) THEN [error |-> NoError, trace |-> trace]
  ELSE LET r == validateField(schema[i].field, schema[i].rules, data, trace) IN
       IF r.error # NoError THEN r
       ELSE validateFrom(schema, data, i + 1, r.trace)

validate(schema, data) == validateFrom(schema, data, 1, <<>>)

-----------------------------------------------------------------------------
(* Schemas *)

Entry(field, rules) == [field |-> field, rules |-> rules]

\* The schema of the Validation tests
UserSchema ==
  << Entry("name", [Rule EXCEPT !.type = "string", !.required = TRUE,
                                !.minLength = Some(3), !.maxLength = Some(50)]),
     Entry("email", [Rule EXCEPT !.type = "string", !.required = TRUE, !.email = TRUE]),
     Entry("age", [Rule EXCEPT !.type = "number", !.required = TRUE,
                               !.min = Some(13), !.max = Some(120)]),
     Entry("website", [Rule EXCEPT !.type = "string", !.url = TRUE]) >>

\* The schema of the Custom Validation tests
ProductSchema ==
  << Entry("name", [Rule EXCEPT !.type = "string", !.required = TRUE]),
     Entry("price", [Rule EXCEPT !.type = "number", !.required = TRUE,
                                 !.min = Some(0), !.validate = "positive"]),
     Entry("stock", [Rule EXCEPT !.type = "number", !.required = TRUE, !.min = Some(0)]),
     Entry("sku", [Rule EXCEPT !.type = "string", !.required = TRUE, !.pattern = "sku"]) >>

\* The rules the README gives as examples: no field is required
AccountSchema ==
  << Entry("name", [Rule EXCEPT !.type = "string", !.minLength = Some(3),
                                !.maxLength = Some(50)]),
     Entry("age", [Rule EXCEPT !.type = "number", !.min = Some(0), !.max = Some(120)]),
     Entry("username", [Rule EXCEPT !.type = "string", !.validate = "slug"]) >>

\* A schema whose fields are named like members of Object.prototype (a field
\* name is any string)
InheritedSchema ==
  << Entry("constructor", [Rule EXCEPT !.type = "string", !.required = TRUE]),
     Entry("valueOf", [Rule EXCEPT !.type = "string"]) >>

SchemaOf(name) ==
  CASE name = "user" -> UserSchema
    [] name = "product" -> ProductSchema
    [] name = "account" -> AccountSchema
    [] name = "inherited" -> InheritedSchema
    [] OTHER -> <<>>

\* A key the candidate object does not have
Absent == [t |-> "absent", n |-> 0, s |-> <<>>]

\* The values tried for each field of a candidate
Samples(name) ==
  CASE name = "user" ->
         [name |-> {Absent, Str(S_Alice), Str(S_Al), Num(30)},
          email |-> {Absent, Null, Str(S_Mail), Str(S_Al), Str(S_MailNbsp)},
          age |-> {Absent, Num(30), Num(12), Num(121), Str(S_30), NaN},
          website |-> {Absent, Undef, Str(S_Url), Str(S_Al), Str(S_UrlTab)}]
    [] name = "product" ->
         [name |-> {Absent, Str(S_Alice)},
          price |-> {Absent, Num(0), Num(5), Num(-1), Str(S_30)},
          stock |-> {Num(5), Num(-1)},
          sku |-> {Absent, Str(S_Sku), Str(S_Al)}]
    [] name = "inherited" ->
         [constructor |-> {Absent, Null, Str(S_Al), Num(30)},
          valueOf |-> {Absent, Undef, Null, Str(S_Al)}]
    [] OTHER ->
         [name |-> {Absent, Null, Str(S_Al), Str(S_Alice)},
          age |-> {Absent, Num(30), Num(121)},
          username |-> {Absent, Undef, Null, Str(S_al), Str(S_Al), Num(30)}]

\* The object holding the keys whose choice is not Absent
ObjectOf(choice) == [f \in {g \in DOMAIN choice : choice[g] # Absent} |-> choice[f]]

Candidates(name) ==
  LET smp == Samples(name)
      all == UNION {smp[f] : f \in DOMAIN smp}
  IN  {ObjectOf(c) : c \in {d \in [DOMAIN smp -> all] : \A f \in DOMAIN smp : d[f] \in smp[f]}}

-----------------------------------------------------------------------------
(* Validator runs: validate applied to one schema and one candidate *)

Pending == [done |-> FALSE, error |-> NoError, trace |-> <<>>]
InitValidate ==
  /\ vSchema \in {"user", "product", "account", "inherited"}
  /\ vData \in Candidates(vSchema)
  /\ vResult = Pending
  /\ store = <<>> /\ now = 0 /\ cfg = [schema |-> "none", validate |-> TRUE]
  /\ ret = <<>> /\ fetched = <<>> /\ qb = <<>> /\ qResult = <<>> /\ mig = <<>> /\ calls = <<>>

Validate ==
  /\ ~vResult.done
  /\ LET r == validate(SchemaOf(vSchema), vData) IN
     vResult' = [done |-> TRUE, error |-> r.error, trace |-> r.trace]
  /\ UNCHANGED <<vSchema, vData, store, now, cfg, ret, fetched, qb, qResult, mig, calls>>

NextValidate == Validate

SpecValidate == InitValidate /\ [][NextValidate]_vars

-----------------------------------------------------------------------------
(* The Model facade over the store *)

MaxClock == 1     \* the clock runs from 0 to MaxClock milliseconds
MaxDocs == 1      \* the store holds at most MaxDocs documents

\* Math.random().toString(36).substr(2, 9) for the draws 0.5 and 0.25
RandomSuffixes == {<<105>>, <<57>>}

\* generateId: `${Date.now()}-${random suffix}`
generateId(t, suffix) == DigitsOf(t) \o <<45>> \o suffix

Pad3(t) == IF t < 10 THEN <<48, 48>> \o DigitsOf(t)
           ELSE IF t < 100 THEN <<48>> \o DigitsOf(t) ELSE DigitsOf(t)

\* new Date().toISOString() at t milliseconds (t < 1000) after the epoch
toISOString(t) ==
  <<49, 57, 55, 48, 45, 48, 49, 45, 48, 49, 84, 48, 48, 58, 48, 48, 58, 48, 48, 46>>
    \o Pad3(t) \o <<90>>

\* JSON.stringify of a value inside an object or array: NaN is written as null,
\* undefined or a function inside an array as null, at every depth; an object
\* without enumerable properties is written as {}
RECURSIVE ToJSON(_)
ToJSON(v) ==
  CASE v.t = "nan" -> Null
    [] v.t = "array" ->
         Arr([i \in 1..Len(v.s) |->
                IF v.s[i].t \in {"undefined", "function"} THEN Null ELSE ToJSON(v.s[i])])
    [] v.t = "object" -> EmptyObject
    [] OTHER -> v

\* JSON.stringify(object): the text, as the set of its members <<key, value>>; a
\* key holding undefined or a function is left out
JSONstringify(obj) ==
  {<<k, ToJSON(obj[k])>> : k \in {j \in DOMAIN obj : obj[j].t \notin {"undefined", "function"}}}

\* JSON.parse(text): the object with the members of the text
JSONparse(text) ==
  [k \in {m[1] : m \in text} |-> (CHOOSE m \in text : m[1] = k)[2]]

\* { ...a, ...b }
Spread(a, b) == [k \in DOMAIN a \cup DOMAIN b |-> IF k \in DOMAIN b THEN b[k] ELSE a[k]]

NoDoc == [k \in {} |-> Undef]

S_toonstore == <<116, 111, 111, 110, 115, 116, 111, 114, 101>>   \* "toonstore"
S_user == <<117, 115, 101, 114>>                                 \* "user"

\* this.collectionName of the model: name.toLowerCase()
collectionName == S_user

\* getKeyPattern(id): the key of document id, or the pattern of the collection's
\* keys when no id (or the empty string) is given
getKeyPattern(id) ==
  S_toonstore \o <<58>> \o collectionName \o <<58>> \o (IF id # <<>> THEN id ELSE <<42>>)

\* create and update never running validate
ValidatesNever == FALSE

\* Whether create and update run validate
Validates == cfg.validate /\ cfg.schema # "none"

\* Model.findById on the store: the parsed document, or NoDoc for null
findById(st, id) ==
  LET key == getKeyPattern(id) IN
  IF key \in DOMAIN st THEN JSONparse(st[key]) ELSE NoDoc

\* redis.set(key, text)
RedisSet(st, key, text) == [k \in DOMAIN st \cup {key} |-> IF k = key THEN text ELSE st[k]]

\* a del that removes nothing
RedisDelNothing(st, key) == st

\* redis.del(key)
RedisDel(st, key) == [k \in DOMAIN st \ {key} |-> st[k]]

\* What no facade call touches
notFacade == <<cfg, vSchema, vData, vResult, fetched, qb, qResult, mig>>

\* A call and what it returned; returned is "pending" for a call that has been
\* made and has not returned yet
Return(op, id, data, error, returned, doc, writes) ==
  [op |-> op, id |-> id, data |-> data, error |-> error, returned |-> returned,
   doc |-> doc, writes |-> writes]

\* A caller that awaits each call before it makes the next.  calls[c] is what
\* caller c has: with pc "idle" the call it made last and what that returned,
\* else the call it waits for, where the call stands (pc) and the call's
\* locals: existing (update), keys, documents and deleted (deleteMany).
\* before is a history of the run, not a local: the store when the call was
\* made.
Caller(r, pc) ==
  [pc |-> pc, op |-> r.op, id |-> r.id, data |-> r.data, error |-> r.error,
   returned |-> r.returned, doc |-> r.doc,
   existing |-> NoDoc, keys |-> {}, documents |-> NoDoc, deleted |-> 0, before |-> <<>>]

NoReturn == Return("none", <<>>, NoDoc, NoError, "none", NoDoc, 0)

\* Caller c makes a call: it waits for none
Free(c) == calls[c].pc = "idle"

\* The call of caller c returns r
Returns(c, r) ==
  /\ ret' = r
  /\ calls' = [calls EXCEPT ![c] = Caller(r, "idle")]

\* The call of caller c goes on at pc with its locals; ret is the call, pending
Awaits(c, waiting) ==
  /\ ret' = Return(waiting.op, waiting.id, waiting.data, NoError, "pending", NoDoc, 0)
  /\ calls' = [calls EXCEPT ![c] = waiting]

\* The objects callers pass to create and update
Alice == [name |-> Str(S_Alice), email |-> Str(S_Mail), age |-> Num(30)]
Inputs ==
  { Alice,
    [name |-> Str(S_Alice), age |-> Num(30)],
    [Alice EXCEPT !.age = NaN],
    [name |-> Str(S_Alice), email |-> Str(S_Mail), age |-> Num(30), website |-> Undef],
    [age |-> Num(31)] }

\* The ids generateId can produce within the bounds
AllIds == {generateId(t, x) : t \in 0..MaxClock, x \in RandomSuffixes}

\* The document create builds from data, the id and the two readings of the
\* clock
NewDocument(data, id, createdAt, updatedAt) ==
  Spread(data, [_id |-> Str(id), _createdAt |-> Str(toISOString(createdAt)),
                _updatedAt |-> Str(toISOString(updatedAt))])

\* The object update builds from the stored document and data
Merged(existing, data, t) ==
  Spread(Spread(existing, data), [_updatedAt |-> Str(toISOString(t))])

\* Model.create(data): validate, generateId, the document, one awaited set.
\* The call reads the clock three times, each reading at or after the one
\* before: Date.now() in generateId (t), new Date() for _createdAt and new
\* Date() for _updatedAt.
Create(c, data) ==
  LET r == validate(SchemaOf(cfg.schema), data) IN
  /\ Free(c)
  /\ UNCHANGED notFacade
  /\ IF Validates /\ r.error # NoError
     THEN /\ Returns(c, Return("create", <<>>, data, r.error, "throw", NoDoc, 0))
          /\ UNCHANGED <<store, now>>
     ELSE \E t \in now..MaxClock, x \in RandomSuffixes :
          \E createdAt \in t..MaxClock : \E updatedAt \in createdAt..MaxClock :
            LET id == generateId(t, x)
                document == NewDocument(data, id, createdAt, updatedAt)
                key == getKeyPattern(id)
            IN  /\ Cardinality(DOMAIN store \cup {key}) <= MaxDocs
                /\ store' = RedisSet(store, key, JSONstringify(document))
                /\ now' = updatedAt
                /\ Returns(c, Return("create", id, data, NoError, "doc", document, 1))

\* Model.findById(id): one awaited get
FindById(c, id) ==
  /\ Free(c)
  /\ Returns(c, Return("findById", id, NoDoc, NoError,
                       IF getKeyPattern(id) \in DOMAIN store THEN "doc" ELSE "null",
                       findById(store, id), 0))
  /\ UNCHANGED <<store, now>>
  /\ UNCHANGED notFacade

\* Model.update(id, data), up to the answer of findById:
\* const existing = await this.findById(id); if (!existing) return null
UpdateRead(c, id, data) ==
  /\ Free(c)
  /\ IF getKeyPattern(id) \notin DOMAIN store
     THEN Returns(c, Return("update", id, data, NoError, "null", NoDoc, 0))
     ELSE Awaits(c, [Caller(Return("update", id, data, NoError, "pending", NoDoc, 0), "read")
                       EXCEPT !.existing = findById(store, id)])
  /\ UNCHANGED <<store, now>>
  /\ UNCHANGED notFacade

\* update, from the answer of findById on: validate, build the merged object
\* from the document that was read, set it, return it
UpdateWrite(c) ==
  LET id == calls[c].id
      data == calls[c].data
      r == validate(SchemaOf(cfg.schema), data)
  IN  /\ calls[c].op = "update" /\ calls[c].pc = "read"
      /\ UNCHANGED notFacade
      /\ IF Validates /\ r.error # NoError
         THEN /\ Returns(c, Return("update", id, data, r.error, "throw", NoDoc, 0))
              /\ UNCHANGED <<store, now>>
         ELSE \E t \in now..MaxClock :
                LET updated == Merged(calls[c].existing, data, t) IN
                /\ store' = RedisSet(store, getKeyPattern(id), JSONstringify(updated))
                /\ now' = t
                /\ Returns(c, Return("update", id, data, NoError, "doc", updated, 1))

\* Model.delete(id): one awaited del
Delete(c, id) ==
  /\ Free(c)
  /\ store' = RedisDel(store, getKeyPattern(id))
  /\ Returns(c, Return("delete", id, NoDoc, NoError,
                       IF getKeyPattern(id) \in DOMAIN store THEN "true" ELSE "false", NoDoc, 0))
  /\ UNCHANGED now
  /\ UNCHANGED notFacade

\* One caller, who has made no call
OneCaller == [c \in 1..1 |-> Caller(NoReturn, "idle")]

Init ==
  /\ store = [k \in {} |-> {}]
  /\ now = 0
  /\ cfg \in {[schema |-> "user", validate |-> TRUE],
              [schema |-> "user", validate |-> FALSE]}
  /\ ret = NoReturn
  /\ calls = OneCaller
  /\ vSchema = "none" /\ vData = NoDoc /\ vResult = Pending
  /\ fetched = <<>> /\ qb = <<>> /\ qResult = <<>> /\ mig = <<>>

Next ==
  \/ \E data \in Inputs : Create(1, data)
  \/ \E id \in AllIds : FindById(1, id)
  \/ \E id \in AllIds, data \in Inputs : UpdateRead(1, id, data)
  \/ UpdateWrite(1)
  \/ \E id \in AllIds : Delete(1, id)

Spec == Init /\ [][Next]_vars

-----------------------------------------------------------------------------
(* The facade given data that names the reserved fields, or an invalid field *)

\* Objects that carry an _id or a _createdAt of the caller's, and one whose
\* email is not an address
ReservedInputs ==
  { Alice,
    [_id |-> Str(S_Al), name |-> Str(S_Alice), email |-> Str(S_Mail), age |-> Num(30)],
    [_createdAt |-> Str(S_30), age |-> Num(31)],
    [email |-> Str(S_Al)] }

-----------------------------------------------------------------------------
(* Whole-collection operations: count, find and deleteMany over a store that
   also holds keys of other collections *)

\* The store's glob matching, as the server's stringmatchlen does it: * is any
\* run of characters, ? any one character, [...] one character of a class
\* (^ first negates it, a-z is a range, a class the pattern ends in is closed
\* by the end) and \\ takes the next character as it stands

\* pattern without the run of * at its head
RECURSIVE SkipStars(_)
SkipStars(pattern) ==
  IF pattern # <<>> /\ Head(pattern) = 42 THEN SkipStars(Tail(pattern)) ELSE pattern

\* The body of a class from p on, against the character ch: whether an element
\* read so far or a later one holds ch, and the pattern after the class
RECURSIVE GlobClass(_, _, _)
GlobClass(p, ch, match) ==
  IF Len(p) >= 2 /\ p[1] = 92
  THEN GlobClass(SubSeq(p, 3, Len(p)), ch, match \/ p[2] = ch)
  ELSE IF p = <<>> THEN [match |-> match, rest |-> <<>>]
  ELSE IF p[1] = 93 THEN [match |-> match, rest |-> Tail(p)]
  ELSE IF Len(p) >= 3 /\ p[2] = 45
  THEN LET start == IF p[1] > p[3] THEN p[3] ELSE p[1]
           end == IF p[1] > p[3] THEN p[1] ELSE p[3]
       IN  GlobClass(SubSeq(p, 4, Len(p)), ch, match \/ (ch >= start /\ ch <= end))
  ELSE GlobClass(Tail(p), ch, match \/ p[1] = ch)

RECURSIVE GlobMatch(_, _)
GlobMatch(pattern, key) ==
  IF pattern = <<>> \/ key = <<>> THEN pattern = <<>> /\ key = <<>>
  ELSE LET \* after one character of key is taken: a key that ends here is
           \* matched when only * are left in the pattern
           Continue(p) == IF Tail(key) = <<>> THEN SkipStars(p) = <<>>
                          ELSE GlobMatch(p, Tail(key))
       IN  CASE Head(pattern) = 42 ->
                  LET rest == SkipStars(pattern) IN
                  \/ rest = <<>>
                  \/ \E i \in 1..Len(key) : GlobMatch(rest, SubSeq(key, i, Len(key)))
             [] Head(pattern) = 63 -> Continue(Tail(pattern))
             [] Head(pattern) = 91 ->
                  LET p == Tail(pattern)
                      not == p # <<>> /\ Head(p) = 94
                      class == GlobClass(IF not THEN Tail(p) ELSE p, Head(key), FALSE)
                  IN  (class.match # not) /\ Continue(class.rest)
             [] Head(pattern) = 92 /\ Len(pattern) >= 2 ->
                  pattern[2] = Head(key) /\ Continue(SubSeq(pattern, 3, Len(pattern)))
             [] OTHER -> Head(pattern) = Head(key) /\ Continue(Tail(pattern))

\* keys that ignores its pattern
RedisKeysAll(st, pattern) == DOMAIN st

\* redis.keys(pattern); the pattern * is every key
RedisKeys(st, pattern) == {k \in DOMAIN st : pattern = <<42>> \/ GlobMatch(pattern, k)}

\* Model.count()
count(st) == Cardinality(RedisKeys(st, getKeyPattern(<<>>)))

\* redis.mget(...keys) with the nulls filtered out and the rest parsed: the
\* documents of the keys that are stored, here by the key each was read from
\* (the array holds them in the order of redis.keys)
RedisMget(st, keys) == [k \in keys \cap DOMAIN st |-> JSONparse(st[k])]

\* Model.find() over a store that is st at its keys and at its mget
find(st) == RedisMget(st, RedisKeys(st, getKeyPattern(<<>>)))

\* !value
Falsy(v) ==
  \/ v.t \in {"undefined", "null", "nan"}
  \/ v = Num(0) \/ v = Bool(FALSE) \/ v = Str(<<>>)

\* The key delete(doc._id) removes: getKeyPattern of the document's _id field.
\* id ? ... : ... tests the value as it is (an array is truthy, whatever its
\* string), and the template literal then writes String(id) after the prefix.
KeyOfDocument(doc) ==
  LET id == Get(doc, "_id") IN
  IF Falsy(id) THEN getKeyPattern(<<>>)
  ELSE S_toonstore \o <<58>> \o collectionName \o <<58>> \o ToStringJS(id)

\* The inner loop of findOne and deleteMany: no entry of filter differs from
\* the document's field
MatchesFilter(doc, filter) ==
  \A k \in DOMAIN filter : StrictEquals(Get(doc, k), filter[k])

\* !filter || Object.keys(filter).length === 0
NoFilter(filter) == filter = Undef \/ DOMAIN filter = {}

S_0i == generateId(0, <<105>>)                            \* "0-i"
S_09 == generateId(0, <<57>>)                             \* "0-9"
S_1i == generateId(1, <<105>>)                            \* "1-i"
S_19 == generateId(1, <<57>>)                             \* "1-9"
S_users0i == S_toonstore \o <<58>> \o S_user \o <<115, 58>> \o S_0i  \* "toonstore:users:0-i"
S_migrations ==                                           \* "toonstore:_migrations"
  S_toonstore \o <<58, 95, 109, 105, 103, 114, 97, 116, 105, 111, 110, 115>>

\* Entries a store can hold: documents created in this collection, one of them
\* updated with data that named an _id (the id of another document), a
\* document of the collection "users" and a key that is no document's (its
\* text is not read by the model)
StoredPool ==
  { <<getKeyPattern(S_0i), JSONstringify(NewDocument(Alice, S_0i, 0, 0))>>,
    <<getKeyPattern(S_09), JSONstringify(NewDocument([Alice EXCEPT !.age = Num(25)], S_09, 0, 0))>>,
    <<getKeyPattern(S_1i), JSONstringify(NewDocument([name |-> Str(S_Al), age |-> Num(25)], S_1i, 1, 1))>>,
    <<getKeyPattern(S_19),
      JSONstringify(Merged(NewDocument([name |-> Str(S_Al), age |-> Num(30)], S_19, 1, 1),
                           [_id |-> Str(S_0i)], 1))>>,
    <<S_users0i, JSONstringify(NewDocument(Alice, S_0i, 0, 0))>>,
    <<S_migrations, {}>> }

\* The filters handed to deleteMany: none, {}, and objects
DeleteFilters ==
  { Undef, NoDoc, [age |-> Num(25)], [name |-> Str(S_Alice), age |-> Num(30)],
    [name |-> Str(S_Al)], [email |-> Undef] }

InitCollection ==
  /\ \E entries \in SUBSET StoredPool :
       store = [k \in {e[1] : e \in entries} |-> (CHOOSE e \in entries : e[1] = k)[2]]
  /\ now = 1
  /\ cfg = [schema |-> "user", validate |-> TRUE]
  /\ ret = NoReturn
  /\ calls = OneCaller
  /\ vSchema = "none" /\ vData = NoDoc /\ vResult = Pending
  /\ fetched = <<>> /\ qb = <<>> /\ qResult = <<>> /\ mig = <<>>

\* Model.count(): one awaited keys
Count(c) ==
  /\ Free(c)
  /\ Returns(c, Return("count", <<>>, NoDoc, NoError, "number", Num(count(store)), 0))
  /\ UNCHANGED <<store, now>>
  /\ UNCHANGED notFacade

\* Model.deleteMany(filter), up to the answer of keys: of its own keys when
\* there is no filter (return 0 when there are none), else of find(), which
\* returns [] when there are none, and deleteMany 0 then
DeleteManyKeys(c, filter) ==
  LET keys == RedisKeys(store, getKeyPattern(<<>>))
      call == Return("deleteMany", <<>>, filter, NoError, "pending", NoDoc, 0)
  IN  /\ Free(c)
      /\ IF keys = {}
         THEN Returns(c, [call EXCEPT !.returned = "number", !.doc = Num(0)])
         ELSE Awaits(c, [Caller(call, IF NoFilter(filter) THEN "keys" ELSE "find")
                           EXCEPT !.keys = keys, !.before = store])
      /\ UNCHANGED <<store, now>>
      /\ UNCHANGED notFacade

\* deleteMany without a filter, from the answer of keys on: one del of the
\* keys that were read; return keys.length
DeleteManyDel(c) ==
  /\ calls[c].op = "deleteMany" /\ calls[c].pc = "keys"
  /\ store' = [k \in DOMAIN store \ calls[c].keys |-> store[k]]
  /\ Returns(c, Return("deleteMany", <<>>, calls[c].data, NoError, "number",
                       Num(Cardinality(calls[c].keys)), 0))
  /\ UNCHANGED now
  /\ UNCHANGED notFacade

\* deleteMany with a filter, from the answer of find()'s keys to the answer of
\* its mget; the loop then steps over the documents that do not match, up to
\* the first delete or the return
DeleteManyFind(c) ==
  LET found == RedisMget(store, calls[c].keys)
      matching == {k \in DOMAIN found : MatchesFilter(found[k], calls[c].data)}
  IN  /\ calls[c].op = "deleteMany" /\ calls[c].pc = "find"
      /\ IF matching = {}
         THEN Returns(c, Return("deleteMany", <<>>, calls[c].data, NoError, "number", Num(0), 0))
         ELSE Awaits(c, [calls[c] EXCEPT !.pc = "loop",
                                         !.documents = [k \in matching |-> found[k]]])
      /\ UNCHANGED <<store, now>>
      /\ UNCHANGED notFacade

\* deleteMany with a filter: await this.delete(doc._id) of the next matching
\* document (the documents stand in the order of redis.keys, which is any
\* order), deleted++, and on to the next delete or to the return
DeleteManyNext(c) ==
  /\ calls[c].op = "deleteMany" /\ calls[c].pc = "loop"
  /\ \E k \in DOMAIN calls[c].documents :
       LET rest == [j \in DOMAIN calls[c].documents \ {k} |-> calls[c].documents[j]]
           deleted == calls[c].deleted + 1
       IN  /\ store' = RedisDel(store, KeyOfDocument(calls[c].documents[k]))
           /\ IF DOMAIN rest = {}
              THEN Returns(c, Return("deleteMany", <<>>, calls[c].data, NoError, "number",
                                     Num(deleted), 0))
              ELSE Awaits(c, [calls[c] EXCEPT !.documents = rest, !.deleted = deleted])
  /\ UNCHANGED now
  /\ UNCHANGED notFacade

\* The ids handed to delete: those of the stored documents and one never used
CollectionIds == {S_0i, S_09, S_1i, S_19, S_Al}

NextCollection ==
  \/ Count(1)
  \/ \E filter \in DeleteFilters : DeleteManyKeys(1, filter)
  \/ DeleteManyDel(1)
  \/ DeleteManyFind(1)
  \/ DeleteManyNext(1)
  \/ \E id \in CollectionIds : Delete(1, id)

SpecCollection == InitCollection /\ [][NextCollection]_vars

\* The facade given the objects of ReservedInputs
NextReserved ==
  \/ \E data \in ReservedInputs : Create(1, data)
  \/ \E id \in AllIds : FindById(1, id)
  \/ \E id \in AllIds, data \in ReservedInputs : UpdateRead(1, id, data)
  \/ UpdateWrite(1)
  \/ \E id \in AllIds : Delete(1, id)
  \/ \E filter \in DeleteFilters : DeleteManyKeys(1, filter)
  \/ DeleteManyDel(1)
  \/ DeleteManyFind(1)
  \/ DeleteManyNext(1)

SpecReserved == Init /\ [][NextReserved]_vars

-----------------------------------------------------------------------------
(* Calls in flight: two callers of one model, each making one call, neither
   waiting for the other (Promise.all of two calls).  A call runs from the
   answer of one command to the answer of its next in one step. *)

\* The calls made together: two updates that set different fields, a delete
\* and two deleteMany, all of the same document
CallPool ==
  { [op |-> "update", id |-> S_0i, data |-> [name |-> Str(S_Al)]],
    [op |-> "update", id |-> S_0i, data |-> [age |-> Num(31)]],
    [op |-> "delete", id |-> S_0i, data |-> NoDoc],
    [op |-> "deleteMany", id |-> <<>>, data |-> Undef],
    [op |-> "deleteMany", id |-> <<>>, data |-> [age |-> Num(30)]] }

InitConcurrent ==
  /\ store \in { [k \in {} |-> {}],
                 [k \in {getKeyPattern(S_0i)} |-> JSONstringify(NewDocument(Alice, S_0i, 0, 0))] }
  /\ now = 0
  /\ cfg \in {[schema |-> "none", validate |-> TRUE], [schema |-> "user", validate |-> TRUE]}
  /\ calls = [c \in 1..2 |-> Caller(NoReturn, "idle")]
  /\ ret = NoReturn
  /\ vSchema = "none" /\ vData = NoDoc /\ vResult = Pending
  /\ fetched = <<>> /\ qb = <<>> /\ qResult = <<>> /\ mig = <<>>

\* Caller c makes its one call
Call(c, call) ==
  /\ calls[c].op = "none"
  /\ CASE call.op = "update" -> UpdateRead(c, call.id, call.data)
       [] call.op = "delete" -> Delete(c, call.id)
       [] OTHER -> DeleteManyKeys(c, call.data)

NextConcurrent ==
  \/ \E c \in 1..2, call \in CallPool : Call(c, call)
  \/ \E c \in 1..2 : UpdateWrite(c)
  \/ \E c \in 1..2 : DeleteManyDel(c)
  \/ \E c \in 1..2 : DeleteManyFind(c)
  \/ \E c \in 1..2 : DeleteManyNext(c)

SpecConcurrent == InitConcurrent /\ [][NextConcurrent]_vars

-----------------------------------------------------------------------------
(* The QueryBuilder *)

MaxFetched == 3   \* find() returns at most MaxFetched documents
MaxFilters == 2   \* where() is called at most MaxFilters times
MaxPage == 2      \* limit() and skip() are given 0..MaxPage

S_1 == <<49>>                                             \* "1"
S_2 == <<50>>                                             \* "2"
S_3 == <<51>>                                             \* "3"
S_4 == <<52>>                                             \* "4"
S_5 == <<53>>                                             \* "5"
S_6 == <<54>>                                             \* "6"
S_7 == <<55>>                                             \* "7"
S_70 == <<55, 48>>                                        \* "70"
S_abc == <<97, 98, 99>>                                   \* "abc"
S_thirty == <<116, 104, 105, 114, 116, 121>>              \* "thirty"

\* Stored documents, as JSON.parse gives them: numeric ages (two of them
\* equal), ages held as strings, a document with no age and one whose age is
\* null
Pool ==
  { [_id |-> Str(S_1), age |-> Num(30)],
    [_id |-> Str(S_2), age |-> Num(25)],
    [_id |-> Str(S_3), age |-> Str(S_70)],
    [_id |-> Str(S_4), age |-> Str(S_abc)],
    [_id |-> Str(S_5)],
    [_id |-> Str(S_6), age |-> Num(30)],
    [_id |-> Str(S_7), age |-> Null] }

\* What model.find() can return: the documents in the order of redis.keys
FetchedSeqs ==
  UNION { {f \in [1..n -> Pool] : \A i, j \in 1..n : i # j => f[i] # f[j]} :
          n \in 0..MaxFetched }

Filter(field, operator, value) == [field |-> field, operator |-> operator, value |-> value]

\* The filters handed to where()
FilterPool ==
  { Filter("age", "gte", Num(28)),
    Filter("age", "lte", Num(32)),
    Filter("age", "gt", Str(S_thirty)) }

\* String.prototype.includes
StrIncludes(a, b) ==
  \E i \in 1..(Len(a) - Len(b) + 1) : SubSeq(a, i, i + Len(b) - 1) = b

\* Array.prototype.includes (SameValueZero: NaN is found, an array or a parsed
\* object only by identity)
ArrIncludes(arr, v) == v.t # "array" /\ v # EmptyObject /\ \E i \in 1..Len(arr) : arr[i] = v

\* not_in written as the negation of in: true when the value is not an array
FilterMatchesNegatedIn(doc, filter) ==
  LET fieldValue == Get(doc, filter.field) IN
  CASE filter.operator = "eq" -> StrictEquals(fieldValue, filter.value)
    [] filter.operator = "ne" -> ~StrictEquals(fieldValue, filter.value)
    [] filter.operator = "gt" -> JsGt(fieldValue, filter.value)
    [] filter.operator = "gte" -> JsGte(fieldValue, filter.value)
    [] filter.operator = "lt" -> JsLt(fieldValue, filter.value)
    [] filter.operator = "lte" -> JsLte(fieldValue, filter.value)
    [] filter.operator = "contains" ->
         StrIncludes(ToStringJS(fieldValue), ToStringJS(filter.value))
    [] filter.operator = "in" ->
         filter.value.t = "array" /\ ArrIncludes(filter.value.s, fieldValue)
    [] filter.operator = "not_in" ->
         ~(filter.value.t = "array" /\ ArrIncludes(filter.value.s, fieldValue))
    [] OTHER -> FALSE

\* The switch of exec on filter.operator, for one document and one filter
FilterMatches(doc, filter) ==
  LET fieldValue == Get(doc, filter.field) IN
  CASE filter.operator = "eq" -> StrictEquals(fieldValue, filter.value)
    [] filter.operator = "ne" -> ~StrictEquals(fieldValue, filter.value)
    [] filter.operator = "gt" -> JsGt(fieldValue, filter.value)
    [] filter.operator = "gte" -> JsGte(fieldValue, filter.value)
    [] filter.operator = "lt" -> JsLt(fieldValue, filter.value)
    [] filter.operator = "lte" -> JsLte(fieldValue, filter.value)
    [] filter.operator = "contains" ->
         StrIncludes(ToStringJS(fieldValue), ToStringJS(filter.value))
    [] filter.operator = "in" ->
         filter.value.t = "array" /\ ArrIncludes(filter.value.s, fieldValue)
    [] filter.operator = "not_in" ->
         filter.value.t = "array" /\ ~ArrIncludes(filter.value.s, fieldValue)
    [] OTHER -> FALSE

\* this.filterConditions.some(...) in place of every
MatchesAny(doc, filters) == \E i \in 1..Len(filters) : FilterMatches(doc, filters[i])

\* this.filterConditions.every(filter => ...)
MatchesAll(doc, filters) == \A i \in 1..Len(filters) : FilterMatches(doc, filters[i])

\* results.filter(doc => ...)
ApplyFilters(docs, filters) ==
  IF Len(filters) > 0 THEN SelectSeq(docs, LAMBDA d : MatchesAll(d, filters)) ELSE docs

\* The comparator handed to results.sort
SortCompare(a, b, field, order) ==
  LET aVal == Get(a, field)
      bVal == Get(b, field)
  IN  IF JsLt(aVal, bVal) THEN (IF order = "asc" THEN -1 ELSE 1)
      ELSE IF JsGt(aVal, bVal) THEN (IF order = "asc" THEN 1 ELSE -1)
      ELSE 0

\* Array.prototype.sort as Node's engine runs it on fewer than 64 elements: the
\* leading run is counted (and reversed when strictly descending), then the
\* rest is inserted by binary insertion.
\* The last index of the run that starts at 1, scanning from idx.
RECURSIVE RunEnd(_, _, _, _, _)
RunEnd(arr, field, order, descending, idx) ==
  IF idx > Len(arr) THEN Len(arr)
  ELSE LET o == SortCompare(arr[idx], arr[idx - 1], field, order) IN
       IF (descending /\ o >= 0) \/ (~descending /\ o < 0) THEN idx - 1
       ELSE RunEnd(arr, field, order, descending, idx + 1)

Reverse(s) == [i \in 1..Len(s) |-> s[Len(s) + 1 - i]]

\* Where the pivot goes among arr[left..right-1]
RECURSIVE InsertionPoint(_, _, _, _, _, _)
InsertionPoint(arr, pivot, field, order, left, right) ==
  IF left >= right THEN left
  ELSE LET mid == left + ((right - left) \div 2) IN
       IF SortCompare(pivot, arr[mid], field, order) < 0
       THEN InsertionPoint(arr, pivot, field, order, left, mid)
       ELSE InsertionPoint(arr, pivot, field, order, mid + 1, right)

RECURSIVE BinaryInsertionSort(_, _, _, _)
BinaryInsertionSort(arr, field, order, start) ==
  IF start > Len(arr) THEN arr
  ELSE LET pivot == arr[start]
           left == InsertionPoint(arr, pivot, field, order, 1, start)
           moved == SubSeq(arr, 1, left - 1) \o <<pivot>> \o SubSeq(arr, left, start - 1)
                      \o SubSeq(arr, start + 1, Len(arr))
       IN  BinaryInsertionSort(moved, field, order, start + 1)

ArraySort(arr, field, order) ==
  IF Len(arr) < 2 THEN arr
  ELSE LET descending == SortCompare(arr[2], arr[1], field, order) < 0
           run == RunEnd(arr, field, order, descending, 3)
           made == IF descending
                   THEN Reverse(SubSeq(arr, 1, run)) \o SubSeq(arr, run + 1, Len(arr))
                   ELSE arr
       IN  BinaryInsertionSort(made, field, order, run + 1)

\* if (this.sortOptions) results.sort(...)
ApplySort(docs, sort) ==
  IF sort # <<>> THEN ArraySort(docs, sort[1].field, sort[1].order) ELSE docs

\* results.slice(n)
SliceFrom(docs, n) == SubSeq(docs, n + 1, Len(docs))

\* results.slice(0, n)
SliceTo(docs, n) == SubSeq(docs, 1, IF n < Len(docs) THEN n ELSE Len(docs))

\* if (this.skipValue) results = results.slice(this.skipValue)
ApplySkip(docs, skip) ==
  IF skip # None /\ skip[1] # 0 THEN SliceFrom(docs, skip[1]) ELSE docs

\* if (this.limitValue) results = results.slice(0, this.limitValue)
ApplyLimit(docs, limit) ==
  IF limit # None /\ limit[1] # 0 THEN SliceTo(docs, limit[1]) ELSE docs

\* QueryBuilder.exec on what find() returned
exec(docs, b) ==
  ApplyLimit(ApplySkip(ApplySort(ApplyFilters(docs, b.filters), b.sort), b.skip), b.limit)

NewBuilder == [filters |-> <<>>, sort |-> <<>>, limit |-> None, skip |-> None]
\* qResult before exec is called; called: exec() has been called and waits for
\* find(); done: exec has returned results
NotRun == [called |-> FALSE, done |-> FALSE, results |-> <<>>]

notQuery == <<vSchema, vData, vResult, store, now, cfg, ret, mig, calls>>

InitQuery ==
  /\ fetched \in FetchedSeqs
  /\ qb = NewBuilder
  /\ qResult = NotRun
  /\ vSchema = "none" /\ vData = NoDoc /\ vResult = Pending
  /\ store = [k \in {} |-> {}] /\ now = 0 /\ cfg = [schema |-> "none", validate |-> TRUE]
  /\ ret = <<>> /\ mig = <<>> /\ calls = <<>>

\* where(field, operator, value)
Where(filter) ==
  /\ ~qResult.done
  /\ Len(qb.filters) < MaxFilters
  /\ \A i \in 1..Len(qb.filters) : qb.filters[i] # filter
  /\ qb' = [qb EXCEPT !.filters = Append(@, filter)]
  /\ UNCHANGED <<fetched, qResult>>
  /\ UNCHANGED notQuery

\* sort(field, order)
Sort(field, order) ==
  /\ ~qResult.done
  /\ qb.sort = <<>>
  /\ qb' = [qb EXCEPT !.sort = <<[field |-> field, order |-> order]>>]
  /\ UNCHANGED <<fetched, qResult>>
  /\ UNCHANGED notQuery

\* limit(value)
Limit(value) ==
  /\ ~qResult.done
  /\ qb.limit = None
  /\ qb' = [qb EXCEPT !.limit = Some(value)]
  /\ UNCHANGED <<fetched, qResult>>
  /\ UNCHANGED notQuery

\* skip(value)
Skip(value) ==
  /\ ~qResult.done
  /\ qb.skip = None
  /\ qb' = [qb EXCEPT !.skip = Some(value)]
  /\ UNCHANGED <<fetched, qResult>>
  /\ UNCHANGED notQuery

\* exec() is called: it runs up to let results = await this.model.find().  The
\* builder's fields are read after find() has answered, so the builder methods
\* called in between still count.
ExecCall ==
  /\ ~qResult.called
  /\ qResult' = [qResult EXCEPT !.called = TRUE]
  /\ UNCHANGED <<fetched, qb>>
  /\ UNCHANGED notQuery

\* exec(), from the answer of find() on: filter, sort, slice, return.  The
\* model follows a builder up to this return.
ExecReturn ==
  /\ qResult.called /\ ~qResult.done
  /\ qResult' = [qResult EXCEPT !.done = TRUE, !.results = exec(fetched, qb)]
  /\ UNCHANGED <<fetched, qb>>
  /\ UNCHANGED notQuery

NextQuery ==
  \/ \E filter \in FilterPool : Where(filter)
  \/ \E order \in {"asc", "desc"} : Sort("age", order)
  \/ \E value \in 0..MaxPage : Limit(value)
  \/ \E value \in 0..MaxPage : Skip(value)
  \/ ExecCall
  \/ ExecReturn

SpecQuery == InitQuery /\ [][NextQuery]_vars

-----------------------------------------------------------------------------
(* Sorted queries over documents whose sort-field values are of mixed types *)

MaxSorted == 4    \* find() returns at most MaxSorted documents to a sorted query

S_8 == <<56>>                                             \* "8"
S_9 == <<57>>                                             \* "9"
S_20 == <<50, 48>>                                        \* "20"
S_100 == <<49, 48, 48>>                                   \* "100"

\* Stored documents: two with the same numeric age, two whose ages are numeric
\* strings ("100" < "20" as strings, 20 < 30 < 100 as numbers), one whose age
\* is no number and one with a smaller numeric age
SortPool ==
  { [_id |-> Str(S_1), age |-> Num(30)],
    [_id |-> Str(S_6), age |-> Num(30)],
    [_id |-> Str(S_8), age |-> Str(S_20)],
    [_id |-> Str(S_9), age |-> Str(S_100)],
    [_id |-> Str(S_4), age |-> Str(S_abc)],
    [_id |-> Str(S_2), age |-> Num(25)] }

\* What model.find() can return to a sorted query
SortedSeqs ==
  UNION { {f \in [1..n -> SortPool] : \A i, j \in 1..n : i # j => f[i] # f[j]} :
          n \in 0..MaxSorted }

InitSort ==
  /\ fetched \in SortedSeqs
  /\ qb = NewBuilder
  /\ qResult = NotRun
  /\ vSchema = "none" /\ vData = NoDoc /\ vResult = Pending
  /\ store = [k \in {} |-> {}] /\ now = 0 /\ cfg = [schema |-> "none", validate |-> TRUE]
  /\ ret = <<>> /\ mig = <<>> /\ calls = <<>>

\* query().sort('age', order).exec()
NextSort ==
  \/ \E order \in {"asc", "desc"} : Sort("age", order)
  \/ ExecCall
  \/ ExecReturn

SpecSort == InitSort /\ [][NextSort]_vars

-----------------------------------------------------------------------------
(* Single-filter queries: every operator against every kind of operand *)

\* The operators where() is given; "like" is none of the QueryOperator names
Operators == {"eq", "ne", "gt", "gte", "lt", "lte", "contains", "in", "not_in", "like"}

\* The values where() is given
OperandValues ==
  { Num(30), Num(7), Str(S_30), Str(S_70), Str(S_abc), Null, Undef, Bool(TRUE),
    Arr(<<>>), Arr(<<Num(30), Str(S_70)>>), Arr(<<Null>>),
    Str(S_Nbsp30), Arr(<<Arr(<<Num(30)>>), Null>>) }

\* Every operator with every value on the field age, and on valueOf, which no
\* document holds and every document inherits
OperandFilters ==
  { Filter("age", op, v) : op \in Operators, v \in OperandValues }
    \cup { Filter("valueOf", op, v) : op \in {"eq", "gt", "contains"},
                                     v \in {Str(S_abc), Undef, Inherited("valueOf")} }

InitFilter ==
  /\ fetched \in {f \in FetchedSeqs : Len(f) <= 2}
  /\ qb = NewBuilder
  /\ qResult = NotRun
  /\ vSchema = "none" /\ vData = NoDoc /\ vResult = Pending
  /\ store = [k \in {} |-> {}] /\ now = 0 /\ cfg = [schema |-> "none", validate |-> TRUE]
  /\ ret = <<>> /\ mig = <<>> /\ calls = <<>>

\* where(field, operator, value) on a new builder
WhereOnce(filter) == qb.filters = <<>> /\ Where(filter)

NextFilter ==
  \/ \E filter \in OperandFilters : WhereOnce(filter)
  \/ ExecCall
  \/ ExecReturn

SpecFilter == InitFilter /\ [][NextFilter]_vars

-----------------------------------------------------------------------------
(* The Go binding's filter predicate (sdks/go): QueryBuilder.matchesFilter on
   values as encoding/json decodes them -- float64, string, bool, nil and
   []interface{} -- written with the same tagged records.  nil is Null, and a
   key the document does not have reads as nil. *)

\* doc[filter.Field] on a map[string]interface{}
GoGet(doc, field) == IF field \in DOMAIN doc /\ doc[field].t # "undefined" THEN doc[field] ELSE Null

\* s with the zeros at its end taken off, down to one character
RECURSIVE StripTrailingZeros(_)
StripTrailingZeros(s) ==
  IF Len(s) > 1 /\ s[Len(s)] = 48 THEN StripTrailingZeros(SubSeq(s, 1, Len(s) - 1)) ELSE s

\* %v of a float64 holding the integer n >= 0, which is %g with the shortest
\* digits: the digits when the decimal exponent is below 6 ("30", "999999"),
\* else one digit, a point and the other digits up to the last that is not 0,
\* and the exponent with its sign and two digits or more ("1e+06", "2.5e+07")
FormatFloat(n) ==
  LET digs == DigitsOf(n)
      exp == Len(digs) - 1
      mant == StripTrailingZeros(digs)
  IN  IF exp < 6 THEN digs
      ELSE <<mant[1]>> \o (IF Len(mant) > 1 THEN <<46>> \o Tail(mant) ELSE <<>>)
             \o <<101, 43>> \o (IF exp < 10 THEN <<48>> ELSE <<>>) \o DigitsOf(exp)

\* fmt.Sprintf("%v", v) of a scalar, and of a map without keys
GoSprintScalar(v) ==
  CASE v.t = "string" -> v.s
    [] v.t = "number" -> IF v.n < 0 THEN <<45>> \o FormatFloat(-v.n) ELSE FormatFloat(v.n)
    [] v.t = "nan" -> <<78, 97, 78>>
    [] v.t = "boolean" -> IF v.n = 1 THEN <<116, 114, 117, 101>>
                          ELSE <<102, 97, 108, 115, 101>>
    [] v.t = "object" -> <<109, 97, 112, 91, 93>>          \* "map[]"
    [] OTHER -> <<60, 110, 105, 108, 62>>                  \* "<nil>"

\* The elements of a slice under %v, separated by spaces; an element that is a
\* slice is printed as a slice, in brackets
RECURSIVE GoSprintFrom(_, _)
GoSprintFrom(a, i) ==
  IF i > Len(a) THEN <<>>
  ELSE (IF i > 1 THEN <<32>> ELSE <<>>)
       \o (IF a[i].t = "array" THEN <<91>> \o GoSprintFrom(a[i].s, 1) \o <<93>>
           ELSE GoSprintScalar(a[i]))
       \o GoSprintFrom(a, i + 1)

\* fmt.Sprintf("%v", v)
GoSprint(v) ==
  IF v.t = "array" THEN <<91>> \o GoSprintFrom(v.s, 1) \o <<93>> ELSE GoSprintScalar(v)

\* toFloat64(val): ok for the numeric types only; the value is a float64, NaN
\* among them
toFloat64(v) ==
  [value |-> IF v.t \in {"number", "nan"} THEN v ELSE Num(0), ok |-> v.t \in {"number", "nan"}]

\* compareValues(a, b): as numbers when both are numbers (> and < are false
\* when either is NaN), else their %v strings byte by byte
compareValues(a, b) ==
  LET aFloat == toFloat64(a)
      bFloat == toFloat64(b)
      aStr == GoSprint(a)
      bStr == GoSprint(b)
      Greater(x, y) == x.t = "number" /\ y.t = "number" /\ x.n > y.n
  IN  IF aFloat.ok /\ bFloat.ok
      THEN (IF Greater(aFloat.value, bFloat.value) THEN 1
            ELSE IF Greater(bFloat.value, aFloat.value) THEN -1 ELSE 0)
      ELSE IF StrLess(bStr, aStr) THEN 1
      ELSE IF StrLess(aStr, bStr) THEN -1 ELSE 0

\* findSubstring(s, substr)
findSubstring(str, substr) ==
  \E i \in 1..(Len(str) - Len(substr) + 1) : SubSeq(str, i, i + Len(substr) - 1) = substr

\* contains(s, substr)
contains(str, substr) ==
  /\ Len(str) >= Len(substr)
  /\ \/ str = substr
     \/ Len(substr) = 0
     \/ Len(str) > 0 /\ Len(substr) > 0 /\ findSubstring(str, substr)

\* QueryBuilder.matchesFilter(docValue, operator, filterValue)
matchesFilter(docValue, operator, filterValue) ==
  CASE operator = "eq" -> GoSprint(docValue) = GoSprint(filterValue)
    [] operator = "ne" -> GoSprint(docValue) # GoSprint(filterValue)
    [] operator = "gt" -> compareValues(docValue, filterValue) > 0
    [] operator = "gte" -> compareValues(docValue, filterValue) >= 0
    [] operator = "lt" -> compareValues(docValue, filterValue) < 0
    [] operator = "lte" -> compareValues(docValue, filterValue) <= 0
    [] operator = "contains" -> contains(GoSprint(docValue), GoSprint(filterValue))
    [] operator = "in" ->
         /\ filterValue.t = "array"
         /\ \E i \in 1..Len(filterValue.s) : GoSprint(docValue) = GoSprint(filterValue.s[i])
    [] operator = "not_in" ->
         ~(/\ filterValue.t = "array"
           /\ \E i \in 1..Len(filterValue.s) : GoSprint(docValue) = GoSprint(filterValue.s[i]))
    [] OTHER -> FALSE

\* QueryBuilder.matchesFilters(doc)
matchesFilters(doc, filters) ==
  \A i \in 1..Len(filters) :
    matchesFilter(GoGet(doc, filters[i].field), filters[i].operator, filters[i].value)

-----------------------------------------------------------------------------
(* The MigrationRunner *)

MaxCount == 2     \* up() and down() are given counts 0..MaxCount

F_1a == <<49, 95, 97, 46, 116, 115>>                      \* "1_a.ts"
F_11a == <<49, 49, 95, 97, 46, 116, 115>>                 \* "11_a.ts"
F_2b == <<50, 95, 98, 46, 106, 115>>                      \* "2_b.js"
F_notes == <<110, 111, 116, 101, 115, 46, 109, 100>>      \* "notes.md"
N_1a == <<49, 95, 97>>                                    \* "1_a"
N_2b == <<50, 95, 98>>                                    \* "2_b"
N_0x == <<48, 95, 120>>                                   \* "0_x"

\* What the migrations directory can hold
DirectoryPool == {F_1a, F_11a, F_2b, F_notes}

\* String.prototype.endsWith
EndsWith(str, suffix) ==
  /\ Len(str) >= Len(suffix)
  /\ SubSeq(str, Len(str) - Len(suffix) + 1, Len(str)) = suffix

\* file.endsWith('.js') || file.endsWith('.ts')
IsMigrationFile(file) == EndsWith(file, <<46, 106, 115>>) \/ EndsWith(file, <<46, 116, 115>>)

MinOf(S) == CHOOSE x \in S : \A y \in S : x <= y

\* Array.prototype.sort() with no comparator, on distinct strings: ascending by
\* code units
RECURSIVE SortStrings(_)
SortStrings(S) ==
  IF S = {} THEN <<>>
  ELSE LET least == CHOOSE x \in S : \A y \in S \ {x} : StrLess(x, y)
       IN  <<least>> \o SortStrings(S \ {least})

\* the directory's migration files, newest name first
getMigrationFilesDescending(dir) == Reverse(SortStrings({f \in dir : IsMigrationFile(f)}))

\* getMigrationFiles(): readdirSync(...).filter(...).sort()
getMigrationFiles(dir) == SortStrings({f \in dir : IsMigrationFile(f)})

\* loadMigration(filename).name: filename.replace(/\.(js|ts)$/, '')
MigrationName(filename) ==
  IF IsMigrationFile(filename) THEN SubSeq(filename, 1, Len(filename) - 3) ELSE filename

\* getAppliedMigrations(): data ? JSON.parse(data) : [], for the text stored
\* under toonstore:_migrations (None when the key is not set)
getAppliedMigrations(stored) == IF stored = None THEN <<>> ELSE stored[1]

\* saveAppliedMigrations(migrations): JSON.stringify of an array of strings,
\* which parses back to the same array
saveAppliedMigrations(migrations) == Some(migrations)

\* applied.includes(name)
SeqIncludes(seq, x) == \E i \in 1..Len(seq) : seq[i] = x

\* getPendingMigrations(): the names of the files not applied, in file order
getPendingMigrations(dir, stored) ==
  LET applied == getAppliedMigrations(stored)
      files == getMigrationFiles(dir)
      names == [i \in 1..Len(files) |-> MigrationName(files[i])]
  IN  SelectSeq(names, LAMBDA n : ~SeqIncludes(applied, n))

\* applied.slice(-count)
SliceLast(arr, n) ==
  IF n = 0 THEN arr
  ELSE SubSeq(arr, (IF Len(arr) > n THEN Len(arr) - n ELSE 0) + 1, Len(arr))

\* applied.splice(applied.indexOf(name), 1): the first occurrence goes, or the
\* last element when indexOf is -1
SpliceName(applied, name) ==
  LET at == {i \in 1..Len(applied) : applied[i] = name}
      index == IF at = {} THEN Len(applied) ELSE MinOf(at)
  IN  SubSeq(applied, 1, index - 1) \o SubSeq(applied, index + 1, Len(applied))

\* the first file of the directory whose name holds name:
\* this.getMigrationFiles().find(f => f.includes(name)); <<>> for undefined
FileOf(dir, name) ==
  LET files == getMigrationFiles(dir)
      hits == {j \in 1..Len(files) : StrIncludes(files[j], name)}
  IN  IF hits = {} THEN <<>> ELSE files[MinOf(hits)]

\* The loop of down() from toRollback[i] downwards, up to the first name that
\* has a file (the others are stepped over with continue): its index, or 0
\* when the loop ends
RECURSIVE NextWithFile(_, _, _)
NextWithFile(dir, toRollback, i) ==
  IF i = 0 \/ FileOf(dir, toRollback[i]) # <<>> THEN i
  ELSE NextWithFile(dir, toRollback, i - 1)

\* new Date().toISOString().replace(/[-:]/g, '').split('.')[0]
Timestamp(t) ==
  LET iso == SelectSeq(toISOString(t), LAMBDA ch : ch \notin {45, 58})
      dots == {i \in 1..Len(iso) : iso[i] = 46}
  IN  IF dots = {} THEN iso ELSE SubSeq(iso, 1, MinOf(dots) - 1)

\* The file create(name) writes: `${timestamp}_${name}.ts`
TemplateFile(t, name) == Timestamp(t) \o <<95>> \o name \o <<46, 116, 115>>

\* The names create() is given
TemplateNames == {<<120>>}                                \* "x"

\* require(filePath) returns: the files of the pool hold JavaScript whatever
\* their suffix; the template create() writes is TypeScript (an import, typed
\* parameters), which require() takes under a TypeScript loader only
Loads(file) == file \notin mig.templates \/ mig.typescript

\* What the catch block of up() leaves stored: it saves nothing
StoredOnThrowRecording(stored, applied, name) == saveAppliedMigrations(Append(applied, name))

StoredOnThrow(stored, applied, name) == stored

\* A call of the runner and how it ended; outcome is "pending" for a call that
\* has been made and has not ended, error says what threw: the load of a file,
\* the up() or the down() of a migration
NoCall == [op |-> "none", count |-> None, outcome |-> "none", error |-> "none", ran |-> <<>>]

CallOf(op, n) == [NoCall EXCEPT !.op = op, !.count = n, !.outcome = "pending"]

\* A runner whose calls are awaited one after the other.  calls[c] is what
\* runner c has: with pc "idle" the call made last and how it ended, else the
\* call in flight, where it stands and its locals (toRun or toRollback,
\* applied, the index i of the loop, the file down() found).  ran and before
\* are histories of the run, not locals: the migrations whose up() or down()
\* the call has completed, and the applied list stored when the call was made.
Runner(r, pc) ==
  [pc |-> pc, op |-> r.op, count |-> r.count, outcome |-> r.outcome, error |-> r.error,
   ran |-> r.ran, toRun |-> <<>>, toRollback |-> <<>>, applied |-> <<>>, i |-> 0,
   file |-> <<>>, before |-> <<>>]

notMigrate == <<vSchema, vData, vResult, store, cfg, ret, fetched, qb, qResult>>

\* The ways a run can be set up.  mig.live is a history of the run, not a
\* field of the runner: the names of the migrations whose up() has completed
\* and whose down() has not completed since, in the order their up() last
\* completed; it starts as the stored list
MigrationSetups(dirs, storeds) ==
  { m \in [dir : dirs, failing : {{}, {N_2b}, {N_1a}}, failingDown : {{}, {N_1a}},
           templates : {{}}, typescript : BOOLEAN, stored : storeds, ret : {NoCall},
           live : {getAppliedMigrations(st) : st \in storeds}] :
      m.live = getAppliedMigrations(m.stored) }

InitMigrate ==
  /\ mig \in MigrationSetups(SUBSET DirectoryPool, {None, Some(<<N_0x>>)})
  /\ calls = [c \in 1..1 |-> Runner(NoCall, "idle")]
  /\ now = 0
  /\ vSchema = "none" /\ vData = NoDoc /\ vResult = Pending
  /\ store = [k \in {} |-> {}] /\ cfg = [schema |-> "none", validate |-> TRUE]
  /\ ret = <<>> /\ fetched = <<>> /\ qb = <<>> /\ qResult = <<>>

\* The call of runner c ends as r / goes on as the slot waiting
Ends(c, r) == calls' = [calls EXCEPT ![c] = Runner(r, "idle")]

\* MigrationRunner.up(count), up to the answer of getPendingMigrations (one get,
\* then the directory is read and every file loaded); the count n is None for
\* a call without one.  A file that does not load ends the call; so does an
\* empty pending list.
ReadPending(c, n) ==
  LET files == getMigrationFiles(mig.dir)
      pending == getPendingMigrations(mig.dir, mig.stored)
      toRun == IF n # None /\ n[1] # 0 THEN SliceTo(pending, n[1]) ELSE pending
      call == CallOf("up", n)
      r == IF \E i \in 1..Len(files) : ~Loads(files[i])
           THEN [call EXCEPT !.outcome = "throw", !.error = "load"]
           ELSE IF pending = <<>> THEN [call EXCEPT !.outcome = "return"]
           ELSE call
  IN  /\ calls[c].pc = "idle"
      /\ mig' = [mig EXCEPT !.ret = r]
      /\ IF r.outcome = "pending"
         THEN calls' = [calls EXCEPT ![c] =
                          [Runner(r, "pending") EXCEPT
                             !.toRun = toRun, !.before = getAppliedMigrations(mig.stored)]]
         ELSE Ends(c, r)
      /\ UNCHANGED now
      /\ UNCHANGED notMigrate

\* up: const applied = await this.getAppliedMigrations(), a second get
ReadApplied(c) ==
  /\ calls[c].op = "up" /\ calls[c].pc = "pending"
  /\ calls' = [calls EXCEPT ![c] =
                 [@ EXCEPT !.pc = "loop", !.applied = getAppliedMigrations(mig.stored),
                           !.i = 1]]
  /\ mig' = [mig EXCEPT !.ret = CallOf("up", calls[c].count)]
  /\ UNCHANGED now
  /\ UNCHANGED notMigrate

\* up: await migration.up(this.redis) of toRun[i]; an up() that throws is
\* rethrown and ends the call
RunMigration(c) ==
  LET name == calls[c].toRun[calls[c].i]
      call == CallOf("up", calls[c].count)
      thrown == [call EXCEPT !.outcome = "throw", !.error = "up", !.ran = calls[c].ran]
  IN  /\ calls[c].op = "up" /\ calls[c].pc = "loop"
      /\ IF name \in mig.failing
         THEN /\ mig' = [mig EXCEPT !.ret = thrown,
                                    !.stored = StoredOnThrow(@, calls[c].applied, name)]
              /\ Ends(c, thrown)
         ELSE /\ mig' = [mig EXCEPT !.ret = call,
                                    !.live = Append(SelectSeq(@, LAMBDA m : m # name), name)]
              /\ calls' = [calls EXCEPT ![c] = [@ EXCEPT !.pc = "ran", !.ran = Append(@, name)]]
      /\ UNCHANGED now
      /\ UNCHANGED notMigrate

\* up: applied.push(migration.name); await this.saveAppliedMigrations(applied)
\* (the call's own array); then the next migration, or the return
SaveApplied(c) ==
  LET applied == Append(calls[c].applied, calls[c].toRun[calls[c].i])
      last == calls[c].i = Len(calls[c].toRun)
      call == CallOf("up", calls[c].count)
      r == IF last THEN [call EXCEPT !.outcome = "return", !.ran = calls[c].ran] ELSE call
  IN  /\ calls[c].op = "up" /\ calls[c].pc = "ran"
      /\ mig' = [mig EXCEPT !.stored = saveAppliedMigrations(applied), !.ret = r]
      /\ IF last THEN Ends(c, r)
         ELSE calls' = [calls EXCEPT ![c] =
                          [@ EXCEPT !.applied = applied, !.i = @ + 1, !.pc = "loop"]]
      /\ UNCHANGED now
      /\ UNCHANGED notMigrate

\* MigrationRunner.down(count), up to the answer of getAppliedMigrations and
\* on to the first name of toRollback that has a file; the count n is None for
\* a call without one, which the default makes 1
DownRead(c, n) ==
  LET applied == getAppliedMigrations(mig.stored)
      toRollback == SliceLast(applied, IF n = None THEN 1 ELSE n[1])
      i == NextWithFile(mig.dir, toRollback, Len(toRollback))
      call == CallOf("down", n)
      r == IF i = 0 THEN [call EXCEPT !.outcome = "return"] ELSE call
  IN  /\ calls[c].pc = "idle"
      /\ mig' = [mig EXCEPT !.ret = r]
      /\ IF i = 0 THEN Ends(c, r)
         ELSE calls' = [calls EXCEPT ![c] =
                          [Runner(r, "down") EXCEPT
                             !.toRollback = toRollback, !.applied = applied, !.i = i,
                             !.file = FileOf(mig.dir, toRollback[i]), !.before = applied]]
      /\ UNCHANGED now
      /\ UNCHANGED notMigrate

\* down: await this.loadMigration(filename); await migration.down(this.redis);
\* a load or a down() that throws is rethrown and ends the call
RunDown(c) ==
  LET name == MigrationName(calls[c].file)
      call == CallOf("down", calls[c].count)
      thrown == [call EXCEPT !.outcome = "throw", !.ran = calls[c].ran,
                             !.error = IF Loads(calls[c].file) THEN "down" ELSE "load"]
  IN  /\ calls[c].op = "down" /\ calls[c].pc = "down"
      /\ IF ~Loads(calls[c].file) \/ name \in mig.failingDown
         THEN /\ mig' = [mig EXCEPT !.ret = thrown]
              /\ Ends(c, thrown)
         ELSE /\ mig' = [mig EXCEPT !.ret = call,
                                    !.live = SelectSeq(@, LAMBDA m : m # name)]
              /\ calls' = [calls EXCEPT ![c] =
                             [@ EXCEPT !.pc = "rolled", !.ran = Append(@, name)]]
      /\ UNCHANGED now
      /\ UNCHANGED notMigrate

\* down: applied.splice(applied.indexOf(name), 1); await
\* this.saveAppliedMigrations(applied) (the call's own array); then on to the
\* next name that has a file, or the return
SaveDown(c) ==
  LET applied == SpliceName(calls[c].applied, calls[c].toRollback[calls[c].i])
      i == NextWithFile(mig.dir, calls[c].toRollback, calls[c].i - 1)
      call == CallOf("down", calls[c].count)
      r == IF i = 0 THEN [call EXCEPT !.outcome = "return", !.ran = calls[c].ran] ELSE call
  IN  /\ calls[c].op = "down" /\ calls[c].pc = "rolled"
      /\ mig' = [mig EXCEPT !.stored = saveAppliedMigrations(applied), !.ret = r]
      /\ IF i = 0 THEN Ends(c, r)
         ELSE calls' = [calls EXCEPT ![c] =
                          [@ EXCEPT !.applied = applied, !.i = i, !.pc = "down",
                                    !.file = FileOf(mig.dir, calls[c].toRollback[i])]]
      /\ UNCHANGED now
      /\ UNCHANGED notMigrate

\* MigrationRunner.create(name): the template is written to
\* `${timestamp}_${name}.ts` in the migrations directory (made when absent: the
\* model does not tell an absent directory from an empty one).  The call has no
\* await before its return and touches nothing stored.
CreateMigration(c, name) ==
  /\ calls[c].pc = "idle"
  /\ \E t \in now..MaxClock :
       LET file == TemplateFile(t, name)
           r == [CallOf("create", None) EXCEPT !.outcome = "return"]
       IN  /\ mig' = [mig EXCEPT !.dir = @ \cup {file}, !.templates = @ \cup {file}, !.ret = r]
           /\ Ends(c, r)
           /\ now' = t
  /\ UNCHANGED notMigrate

\* The counts up() and down() are given
Counts == {None} \cup {Some(c) : c \in 0..MaxCount}

NextMigrate ==
  \/ \E n \in Counts : ReadPending(1, n)
  \/ ReadApplied(1)
  \/ RunMigration(1)
  \/ SaveApplied(1)
  \/ \E n \in Counts : DownRead(1, n)
  \/ RunDown(1)
  \/ SaveDown(1)
  \/ \E name \in TemplateNames : CreateMigration(1, name)

SpecMigrate == InitMigrate /\ [][NextMigrate]_vars

-----------------------------------------------------------------------------
(* Two runners over one store and one directory, each making one call of up
   or down, neither waiting for the other (two POST /api/migrations requests
   make them).  A runner goes from one await to the next in one step. *)

\* The calls made together
RunnerPool ==
  { [op |-> "up", count |-> None], [op |-> "up", count |-> Some(1)],
    [op |-> "down", count |-> None], [op |-> "down", count |-> Some(2)] }

InitRunners ==
  /\ mig \in { m \in MigrationSetups(SUBSET {F_1a, F_2b},
                                     {None, Some(<<N_1a>>), Some(<<N_1a, N_2b>>)}) :
                 m.failing # {N_1a} /\ ~m.typescript }
  /\ calls = [c \in 1..2 |-> Runner(NoCall, "idle")]
  /\ now = 0
  /\ vSchema = "none" /\ vData = NoDoc /\ vResult = Pending
  /\ store = [k \in {} |-> {}] /\ cfg = [schema |-> "none", validate |-> TRUE]
  /\ ret = <<>> /\ fetched = <<>> /\ qb = <<>> /\ qResult = <<>>

\* Runner c makes its one call
CallRunner(c, call) ==
  /\ calls[c].op = "none"
  /\ IF call.op = "up" THEN ReadPending(c, call.count) ELSE DownRead(c, call.count)

NextRunners ==
  \/ \E c \in 1..2, call \in RunnerPool : CallRunner(c, call)
  \/ \E c \in 1..2 : ReadApplied(c)
  \/ \E c \in 1..2 : RunMigration(c)
  \/ \E c \in 1..2 : SaveApplied(c)
  \/ \E c \in 1..2 : RunDown(c)
  \/ \E c \in 1..2 : SaveDown(c)

SpecRunners == InitRunners /\ [][NextRunners]_vars

-----------------------------------------------------------------------------
(* Properties of the validator *)

\* The schema entries that are invalid for the candidate, each judged alone
InvalidAt(schema, data) ==
  {i \in 1..Len(schema) :
     validateField(schema[i].field, schema[i].rules, data, <<>>).error # NoError}

FieldIndex(schema, f) == CHOOSE i \in 1..Len(schema) : schema[i].field = f

\* Whether the check recorded as a trace entry failed
EntryFailed(schema, data, entry) ==
  LET rules == schema[FieldIndex(schema, entry[1])].rules
      v == Get(data, entry[1])
  IN  IF entry[2] = "required" THEN rules.required /\ IsNullish(v)
      ELSE CheckFails(entry[2], rules, v)

\* C1: when two or more schema fields are invalid, validate raises exactly one
\* error, the one of the first invalid field in schema order, and evaluates no
\* check of any later field.
C1_FailFast ==
  LET schema == SchemaOf(vSchema)
      bad == InvalidAt(schema, vData)
  IN  (vResult.done /\ Cardinality(bad) >= 2) =>
        LET first == CHOOSE i \in bad : \A j \in bad : i <= j IN
        /\ vResult.error =
             validateField(schema[first].field, schema[first].rules, vData, <<>>).error
        /\ \A k \in 1..Len(vResult.trace) :
             FieldIndex(schema, vResult.trace[k][1]) <= first
        /\ Cardinality({k \in 1..Len(vResult.trace) :
                          EntryFailed(schema, vData, vResult.trace[k])}) = 1

\* Two invalid fields, the later of which carries a custom predicate
C1_Witness ==
  LET schema == SchemaOf(vSchema)
      bad == InvalidAt(schema, vData)
  IN  /\ vResult.done
      /\ Cardinality(bad) >= 2
      /\ \E i \in bad, j \in bad : i < j /\ schema[j].rules.validate # "none"

\* C4: a field that is not required and that the candidate does not hold, or
\* holds as undefined or null, gets no type, length, range, pattern, email, url
\* or custom check and is never the field of the error.
C4_OptionalSkip ==
  LET schema == SchemaOf(vSchema) IN
  vResult.done =>
    \A i \in 1..Len(schema) :
      (/\ ~schema[i].rules.required
       /\ \/ schema[i].field \notin DOMAIN vData
          \/ IsNullish(vData[schema[i].field]))
      => /\ vResult.error.field # schema[i].field
         /\ \A k \in 1..Len(vResult.trace) :
              vResult.trace[k][1] = schema[i].field => vResult.trace[k][2] = "required"

\* The checks of a field other than required and the custom predicate
BuiltInChecks == {"type", "minLength", "maxLength", "pattern", "email", "url", "min", "max"}

\* C21: the custom predicate of a field runs last.  It is invoked only on a
\* value that passed the required check and every type, string and number
\* check that applies to it, each of which was evaluated before it and none
\* after it; it is invoked whenever a field carrying one gets that far; and a
\* predicate that returns false ends validation with the custom-validation
\* error of that field.
C21_CustomLast ==
  LET schema == SchemaOf(vSchema)
      trace == vResult.trace
  IN  vResult.done =>
        /\ \A k \in 1..Len(trace) :
             trace[k][2] = "custom" =>
               LET f == trace[k][1]
                   rules == schema[FieldIndex(schema, f)].rules
                   v == Get(vData, f)
               IN  /\ rules.validate # "none"
                   /\ ~IsNullish(v)
                   /\ \E j \in 1..(k - 1) : trace[j] = <<f, "required">>
                   /\ \A c \in BuiltInChecks :
                        CheckApplies(c, rules, v) =>
                          /\ ~CheckFails(c, rules, v)
                          /\ \E j \in 1..(k - 1) : trace[j] = <<f, c>>
                   /\ \A j \in (k + 1)..Len(trace) : trace[j][1] # f
                   /\ IF CustomPredicate(rules.validate, v)
                      THEN vResult.error.field # f
                      ELSE vResult.error = Error(f, "custom") /\ k = Len(trace)
        /\ \A i \in 1..Len(schema) :
             LET f == schema[i].field
                 rules == schema[i].rules
                 v == Get(vData, f)
             IN  (/\ rules.validate # "none"
                  /\ ~IsNullish(v)
                  /\ \E j \in 1..Len(trace) : trace[j] = <<f, "required">>
                  /\ \A c \in BuiltInChecks : CheckApplies(c, rules, v) => ~CheckFails(c, rules, v))
                 => \E j \in 1..Len(trace) : trace[j] = <<f, "custom">>

\* The price 0 passed the type and min checks and was refused by the predicate
C21_Witness ==
  /\ vResult.done /\ vSchema = "product"
  /\ vResult.error = Error("price", "custom")
  /\ \E j, k \in 1..Len(vResult.trace) :
       j < k /\ vResult.trace[j] = <<"price", "min">> /\ vResult.trace[k] = <<"price", "custom">>

-----------------------------------------------------------------------------
(* Properties of the Model facade *)

\* Deep equality of two documents; a key holding undefined counts as missing
DocEqual(a, b) == \A k \in DOMAIN a \cup DOMAIN b : Get(a, k) = Get(b, k)

\* The schema entries of the fields the data names
NamedEntries(schema, data) == SelectSeq(schema, LAMBDA e : e.field \in DOMAIN data)

\* C2: with validation enabled and a schema set, a create or update whose data
\* fails validation raises the validation error and writes nothing: the store
\* is the same after the call.  (update looks the id up first and returns null
\* for an id that is not stored, without validating; nothing is written then
\* either.)
C2_NoWriteOnInvalid ==
  [][ LET r == validate(SchemaOf(cfg.schema), ret'.data) IN
      (/\ ret'.op \in {"create", "update"} /\ ret'.returned # "pending"
       /\ cfg.validate /\ cfg.schema # "none"
       /\ r.error # NoError)
      => /\ store' = store
         /\ ret'.writes = 0
         /\ \/ ret'.returned = "throw" /\ ret'.error = r.error
            \/ /\ ret'.op = "update" /\ ret'.returned = "null"
               /\ getKeyPattern(ret'.id) \notin DOMAIN store
    ]_vars

\* An update of a stored document was rejected by validation
C2_Witness ==
  /\ ret.op = "update" /\ ret.returned = "throw" /\ ret.writes = 0
  /\ getKeyPattern(ret.id) \in DOMAIN store

\* C3: update on an existing document treats fields missing from data as not
\* being set: when the fields that data does name are valid, no required-field
\* error is raised and the merged document is returned.
C3_PartialUpdate ==
  (/\ ret.op = "update" /\ ret.returned \notin {"null", "pending"}
   /\ validate(NamedEntries(SchemaOf(cfg.schema), ret.data), ret.data).error = NoError)
  => /\ ret.returned = "doc"
     /\ \A k \in DOMAIN ret.data : Get(ret.doc, k) = ret.data[k]

\* C5: findById of the id create returned gives a document equal to the one
\* create returned.
C5_RoundTrip ==
  (ret.op = "create" /\ ret.returned = "doc")
  => DocEqual(findById(store, ret.id), ret.doc)


-----------------------------------------------------------------------------
(* Properties of the QueryBuilder *)

Range(s) == {s[i] : i \in 1..Len(s)}

\* The orders in which the filters of the builder could have been added
FilterOrders(filters) ==
  { [i \in 1..Len(filters) |-> filters[pi[i]]] : pi \in Permutations(1..Len(filters)) }

\* Where document d stands in what find() returned
Position(d) == CHOOSE i \in 1..Len(fetched) : fetched[i] = d

\* What exec has after filtering and sorting, before it slices
Sorted == ApplySort(ApplyFilters(fetched, qb.filters), qb.sort)

\* C6: exec returns exactly the fetched documents for which every filter of
\* the builder is true (all of them, once each, when no skip or limit is set;
\* only such documents otherwise), and the set returned is the same for every
\* order in which the filters could have been added.
C6_FilterConjunction ==
  qResult.done =>
    LET Accepted == { d \in Range(fetched) :
                        \A k \in 1..Len(qb.filters) : FilterMatches(d, qb.filters[k]) }
        Returned == Range(qResult.results)
    IN  /\ Returned \subseteq Accepted
        /\ (qb.skip = None /\ qb.limit = None)
             => Returned = Accepted /\ Len(qResult.results) = Cardinality(Accepted)
        /\ \A p \in FilterOrders(qb.filters) :
             Range(exec(fetched, [qb EXCEPT !.filters = p])) = Returned

\* Two numeric filters, each rejecting a fetched document the other accepts,
\* and a document that passes both
C6_Witness ==
  /\ qResult.done /\ Len(qb.filters) = 2
  /\ qb.filters[1].value.t = "number" /\ qb.filters[2].value.t = "number"
  /\ qb.skip = None /\ qb.limit = None
  /\ Len(qResult.results) >= 1
  /\ \E d \in Range(fetched) :
       FilterMatches(d, qb.filters[1]) /\ ~FilterMatches(d, qb.filters[2])
  /\ \E d \in Range(fetched) :
       FilterMatches(d, qb.filters[2]) /\ ~FilterMatches(d, qb.filters[1])

\* C7: with a sort spec, any two returned documents whose sort-field values
\* compare equal (the comparator of exec answers 0 for the pair) stand in the
\* order in which they were fetched, for asc and for desc.
C7_StableSort ==
  (qResult.done /\ qb.sort # <<>>) =>
    \A i, j \in 1..Len(qResult.results) :
      (/\ i < j
       /\ SortCompare(qResult.results[i], qResult.results[j],
                      qb.sort[1].field, qb.sort[1].order) = 0)
      => Position(qResult.results[i]) < Position(qResult.results[j])

\* C8: with skip S and limit L both set, exec returns the elements at
\* positions S .. S+L-1 (counted from 0) of the filtered and sorted sequence.
C8_SkipThenLimit ==
  (qResult.done /\ qb.skip # None /\ qb.limit # None) =>
    LET S == qb.skip[1]
        L == qb.limit[1]
        last == IF S + L < Len(Sorted) THEN S + L ELSE Len(Sorted)
    IN  qResult.results = SubSeq(Sorted, S + 1, last)

\* C9: with limit M set (0 included), exec returns at most M documents: the
\* first M of what remains after skip.
C9_LimitBound ==
  (qResult.done /\ qb.limit # None) =>
    LET M == qb.limit[1]
        rest == ApplySkip(Sorted, qb.skip)
    IN  /\ Len(qResult.results) <= M
        /\ qResult.results = SubSeq(rest, 1, IF M < Len(rest) THEN M ELSE Len(rest))

\* C10: a gt/gte/lt/lte filter is false for a document whose field value is
\* of another type than the filter's value (or is absent): no returned
\* document differs in type from the value of such a filter.
C10_TypeMismatchNoMatch ==
  qResult.done =>
    \A k \in 1..Len(qb.filters) : \A d \in Range(qResult.results) :
      qb.filters[k].operator \in {"gt", "gte", "lt", "lte"}
      => TypeOf(Get(d, qb.filters[k].field)) = TypeOf(qb.filters[k].value)

\* C24: with a sort spec (and no skip or limit) exec returns a permutation of
\* the filtered documents ordered on the sort field: for asc no document
\* stands before one whose value is strictly smaller, for desc before one whose
\* value is strictly greater, whatever the types of the values.
C24_TotalOrder ==
  (qResult.done /\ qb.sort # <<>> /\ qb.skip = None /\ qb.limit = None) =>
    LET res == qResult.results
        kept == { d \in Range(fetched) :
                    \A k \in 1..Len(qb.filters) : FilterMatches(d, qb.filters[k]) }
        val(i) == Get(res[i], qb.sort[1].field)
    IN  /\ Range(res) = kept /\ Len(res) = Cardinality(kept)
        /\ \A i, j \in 1..Len(res) :
             i < j => IF qb.sort[1].order = "asc" THEN ~JsLt(val(j), val(i))
                      ELSE ~JsGt(val(j), val(i))

-----------------------------------------------------------------------------
(* Properties of delete, update and create *)

\* C11: delete(id) never raises.  For an id with no stored document it returns
\* false and leaves the store as it was; for a stored id it returns true,
\* removes that document only, findById(id) is null afterwards, and a delete
\* of the same id right after returns false.
C11_DeleteResult ==
  [][ ret'.op = "delete" =>
        LET key == getKeyPattern(ret'.id) IN
        /\ ret'.error = NoError
        /\ ret'.returned = (IF key \in DOMAIN store THEN "true" ELSE "false")
        /\ key \notin DOMAIN store => store' = store
        /\ key \in DOMAIN store =>
             /\ findById(store', ret'.id) = NoDoc
             /\ DOMAIN store' = DOMAIN store \ {key}
             /\ \A k \in DOMAIN store' : store'[k] = store[k]
        /\ (ret.op = "delete" /\ ret.id = ret'.id /\ ret.returned = "true")
             => ret'.returned = "false"
    ]_vars

\* A stored document was deleted and others are still stored
C11_Witness ==
  /\ ret.op = "delete" /\ ret.returned = "true"
  /\ getKeyPattern(ret.id) \notin DOMAIN store
  /\ Cardinality(DOMAIN store) >= 2

\* C13: with validation enabled, create and update decide validation before
\* any access to the store: data with an invalid field raises the validation
\* error, whether or not the id is stored.
C13_ValidateBeforeStore ==
  (/\ ret.op \in {"create", "update"} /\ ret.returned # "pending"
   /\ cfg.validate /\ cfg.schema # "none"
   /\ validate(NamedEntries(SchemaOf(cfg.schema), ret.data), ret.data).error # NoError)
  => ret.returned = "throw"

\* C14: update of a stored document is a shallow merge that re-stamps only
\* _updatedAt: whatever data holds, every field it does not name keeps its
\* value, the stored _id and _createdAt are the ones stored before the call,
\* and _updatedAt is the time of the update.
C14_UpdateFrame ==
  [][ (ret'.op = "update" /\ ret'.returned = "doc") =>
        LET key == getKeyPattern(ret'.id)
            before == JSONparse(store[key])
            after == JSONparse(store'[key])
        IN  /\ \A k \in DOMAIN before \ (DOMAIN ret'.data \cup {"_updatedAt"}) :
                 Get(after, k) = before[k]
            /\ Get(after, "_id") = Get(before, "_id")
            /\ Get(after, "_createdAt") = Get(before, "_createdAt")
            /\ Get(after, "_updatedAt") = Str(toISOString(now'))
    ]_vars

\* C15: create generates an identity only for data that carries none: an _id
\* given in data is the created document's _id and the id of its storage key.
C15_KeepsGivenId ==
  (ret.op = "create" /\ ret.returned = "doc" /\ "_id" \in DOMAIN ret.data)
  => /\ ret.doc._id = ret.data._id
     /\ getKeyPattern(ret.data._id.s) \in DOMAIN store
     /\ Get(findById(store, ret.data._id.s), "_id") = ret.data._id

\* C16: a successful create stores one new document under a key that was not
\* in use: it overwrites nothing and the number of stored documents grows by
\* one.
C16_CreateFreshKey ==
  [][ (ret'.op = "create" /\ ret'.returned = "doc") =>
        /\ getKeyPattern(ret'.id) \notin DOMAIN store
        /\ Cardinality(DOMAIN store') = Cardinality(DOMAIN store) + 1
        /\ \A k \in DOMAIN store : k \in DOMAIN store' /\ store'[k] = store[k]
    ]_vars

\* The keys of the model's collection: those that begin "toonstore:user:"
OwnKeys(st) ==
  LET prefix == S_toonstore \o <<58>> \o collectionName \o <<58>> IN
  {k \in DOMAIN st : Len(k) >= Len(prefix) /\ SubSeq(k, 1, Len(prefix)) = prefix}

\* C28: after any sequence of create, update, delete and deleteMany calls,
\* every stored key toonstore:<collection>:<id> holds a document whose _id is
\* <id>, so findById(x) is null or a document whose _id is x.
C28_KeyMatchesId ==
  /\ \A k \in OwnKeys(store) :
       LET prefix == S_toonstore \o <<58>> \o collectionName \o <<58>>
           id == SubSeq(k, Len(prefix) + 1, Len(k))
       IN  Get(JSONparse(store[k]), "_id") = Str(id)
  /\ \A x \in AllIds :
       findById(store, x) = NoDoc \/ Get(findById(store, x), "_id") = Str(x)

-----------------------------------------------------------------------------
(* Properties of calls in flight *)

\* C26: two updates of one stored document that set disjoint fields and run
\* interleaved both take effect: once both have returned their documents, the
\* stored document holds the values of both.
C26_BothUpdatesApply ==
  (/\ \A c \in 1..2 : calls[c].op = "update" /\ calls[c].pc = "idle" /\ calls[c].returned = "doc"
   /\ calls[1].id = calls[2].id
   /\ DOMAIN calls[1].data \cap DOMAIN calls[2].data = {})
  => LET stored == findById(store, calls[1].id) IN
     \A c \in 1..2 : \A k \in DOMAIN calls[c].data : Get(stored, k) = calls[c].data[k]

\* C27: once a delete has returned true the document is absent in every later
\* state (no create follows here): an update in flight does not write it back.
C27_DeletedStaysAbsent ==
  \A c \in 1..2 :
    (calls[c].op = "delete" /\ calls[c].pc = "idle" /\ calls[c].returned = "true")
    => findById(store, calls[c].id) = NoDoc

-----------------------------------------------------------------------------
(* Properties of deleteMany *)

\* The store when the call that returns in this step was made
StoreAtCall == IF calls[1].pc = "idle" THEN store ELSE calls[1].before

\* C17: deleteMany() with no filter or with {} deletes every document of the
\* collection and returns how many there were; count() is 0 and find() empty
\* afterwards, and every other key stays as it was.
C17_DeleteAll ==
  [][ (/\ ret'.op = "deleteMany" /\ ret'.returned # "pending"
       /\ (ret'.data = Undef \/ DOMAIN ret'.data = {})) =>
        /\ ret'.error = NoError
        /\ ret'.doc = Num(Cardinality(OwnKeys(StoreAtCall)))
        /\ DOMAIN store' = DOMAIN StoreAtCall \ OwnKeys(StoreAtCall)
        /\ \A k \in DOMAIN store' : store'[k] = StoreAtCall[k]
        /\ count(store') = 0
        /\ DOMAIN find(store') = {}
    ]_vars

\* deleteMany() removed two or more documents and left the key of another
\* collection
C17_Witness ==
  /\ ret.op = "deleteMany" /\ ret.data = Undef /\ ret.returned = "number"
  /\ ret.doc.n >= 2
  /\ S_users0i \in DOMAIN store
  /\ OwnKeys(store) = {}

\* C18: deleteMany(filter) with a non-empty filter deletes exactly the
\* documents whose fields strictly equal every entry of filter, returns the
\* number it deleted, and leaves every other document stored and unchanged.
C18_DeleteMatching ==
  [][ (/\ ret'.op = "deleteMany" /\ ret'.returned # "pending"
       /\ ret'.data # Undef /\ DOMAIN ret'.data # {}) =>
        LET matching ==
              { k \in OwnKeys(StoreAtCall) :
                  \A f \in DOMAIN ret'.data :
                    StrictEquals(Get(JSONparse(StoreAtCall[k]), f), ret'.data[f]) }
        IN  /\ DOMAIN store' = DOMAIN StoreAtCall \ matching
            /\ \A k \in DOMAIN store' : store'[k] = StoreAtCall[k]
            /\ ret'.doc = Num(Cardinality(matching))
    ]_vars

-----------------------------------------------------------------------------
(* Properties of single-filter queries *)

\* C12: a query with an in or not_in filter whose value is not an array
\* returns normally with an empty result: the filter matches no document.
C12_NonArrayMembership ==
  (/\ qResult.done
   /\ \E k \in 1..Len(qb.filters) :
        qb.filters[k].operator \in {"in", "not_in"} /\ qb.filters[k].value.t # "array")
  => qResult.results = <<>>

\* not_in with a string for its value, run over fetched documents whose age is
\* not that string
C12_Witness ==
  /\ qResult.done /\ Len(fetched) = 2 /\ qResult.results = <<>>
  /\ qb.filters = <<Filter("age", "not_in", Str(S_abc))>>
  /\ \A i \in 1..Len(fetched) : Get(fetched[i], "age") # Str(S_abc)

\* C22: gt, gte, lt and lte compare the document's field value and the filter
\* value as numbers when both are numbers, and otherwise compare the two as
\* strings, lexicographically: a single such filter returns exactly the fetched
\* documents that this comparison accepts.
C22_NumericElseLexicographic ==
  (/\ qResult.done /\ Len(qb.filters) = 1
   /\ qb.filters[1].operator \in {"gt", "gte", "lt", "lte"})
  => LET f == qb.filters[1]
         Less(a, b) == IF a.t = "number" /\ b.t = "number" THEN a.n < b.n
                       ELSE StrLess(ToStringJS(a), ToStringJS(b))
         Accepts(d) ==
           LET a == Get(d, f.field) IN
           CASE f.operator = "gt" -> Less(f.value, a)
             [] f.operator = "gte" -> ~Less(a, f.value)
             [] f.operator = "lt" -> Less(a, f.value)
             [] OTHER -> ~Less(f.value, a)
     IN  qResult.results = SelectSeq(fetched, Accepts)

\* C25: the Node.js and the Go binding implement the same filter predicate: for
\* one filter with an operator of eq, ne, gt, gte, lt, lte, contains, in,
\* not_in and a value both languages can hold, exec of the Node.js binding
\* returns exactly the fetched documents that Go's matchesFilters accepts.
C25_SameAsGo ==
  (/\ qResult.done /\ Len(qb.filters) = 1
   /\ qb.filters[1].operator
        \in {"eq", "ne", "gt", "gte", "lt", "lte", "contains", "in", "not_in"}
   /\ qb.filters[1].value.t # "undefined")
  => qResult.results = SelectSeq(fetched, LAMBDA d : matchesFilters(d, qb.filters))

-----------------------------------------------------------------------------
(* Properties of the MigrationRunner *)

\* The migration files of dir whose name is not in the applied list
PendingFiles(dir, applied) ==
  {f \in dir : IsMigrationFile(f) /\ \A i \in 1..Len(applied) : applied[i] # MigrationName(f)}

\* The i-th of a set of file names in ascending order
FileAt(files, i) == CHOOSE f \in files : Cardinality({g \in files : StrLess(g, f)}) = i - 1

\* The applied list stored when the call that ends in this step was made
AppliedAtCall ==
  IF calls[1].pc = "idle" THEN getAppliedMigrations(mig.stored) ELSE calls[1].before

\* Every migration file of the directory loads
AllLoad == \A f \in mig.dir : IsMigrationFile(f) => Loads(f)

\* C19: up() without a count runs the up() of the pending migrations in
\* ascending file name order and appends each name to the applied list once
\* its up() has completed; it stops at the first up() that throws, and runs
\* nothing when a file of the directory does not load.  When it returns
\* normally every pending migration has run, none is pending, and an up()
\* right after it runs nothing.
C19_UpRunsPending ==
  [][ (mig'.ret.op = "up" /\ mig'.ret.count = None /\ mig'.ret.outcome # "pending") =>
        LET before == AppliedAtCall
            after == getAppliedMigrations(mig'.stored)
            pending == PendingFiles(mig.dir, before)
            ran == mig'.ret.ran
        IN  /\ Len(ran) <= Cardinality(pending)
            /\ \A i \in 1..Len(ran) :
                 ran[i] = MigrationName(FileAt(pending, i)) /\ ran[i] \notin mig.failing
            /\ after = before \o ran
            /\ mig'.ret.outcome = "return" =>
                 /\ Len(ran) = Cardinality(pending)
                 /\ PendingFiles(mig'.dir, after) = {}
            /\ mig'.ret.outcome = "throw" =>
                 \/ mig'.ret.error = "load" /\ ~AllLoad /\ ran = <<>>
                 \/ /\ mig'.ret.error = "up" /\ AllLoad
                    /\ Len(ran) < Cardinality(pending)
                    /\ MigrationName(FileAt(pending, Len(ran) + 1)) \in mig.failing
            /\ (mig.ret.op = "up" /\ mig.ret.count = None /\ mig.ret.outcome = "return")
                 => ran = <<>>
    ]_vars

\* up() ran two or more migrations, on top of a list that held one, and
\* returned
C19_Witness ==
  /\ mig.ret.op = "up" /\ mig.ret.count = None /\ mig.ret.outcome = "return"
  /\ Len(mig.ret.ran) >= 2
  /\ Len(getAppliedMigrations(mig.stored)) > Len(mig.ret.ran)

\* C23: when the up() of a migration throws during up(count), the call
\* rethrows; the applied list is the one before the call followed by the
\* migrations that completed in this run, in file order; the failing name is
\* not in it, and neither is any pending migration after the failing one.
C23_UpFailureKeepsEarlier ==
  [][ (mig'.ret.op = "up" /\ mig'.ret.outcome = "throw" /\ mig'.ret.error = "up") =>
        LET before == AppliedAtCall
            after == getAppliedMigrations(mig'.stored)
            pending == PendingFiles(mig.dir, before)
            name(i) == MigrationName(FileAt(pending, i))
            ran == mig'.ret.ran
            failed == Len(ran) + 1
        IN  /\ failed <= Cardinality(pending)
            /\ name(failed) \in mig.failing
            /\ \A i \in 1..Len(ran) : ran[i] = name(i) /\ ran[i] \notin mig.failing
            /\ after = before \o ran
            /\ \A i \in failed..Cardinality(pending) :
                 \A j \in 1..Len(after) : after[j] # name(i)
    ]_vars

\* up() threw at the second of three pending migrations: the first is
\* recorded after the one applied before, the third is still pending
C23_Witness ==
  /\ mig.ret.op = "up" /\ mig.ret.outcome = "throw" /\ mig.ret.error = "up"
  /\ Len(mig.ret.ran) = 1
  /\ Len(getAppliedMigrations(mig.stored)) = 2
  /\ Cardinality(PendingFiles(mig.dir, getAppliedMigrations(mig.stored))) = 2

\* C29: after any sequence of up and down calls made one at a time (none is
\* in flight), the applied list stored at toonstore:_migrations holds no name
\* twice and is exactly the migrations whose up() completed and whose down()
\* has not completed since, in the order they were applied.
C29_AppliedListExact ==
  calls[1].pc = "idle" =>
    LET applied == getAppliedMigrations(mig.stored) IN
    /\ \A i, j \in 1..Len(applied) : i # j => applied[i] # applied[j]
    /\ applied = mig.live

\* C30: with two up() runs interleaved on one store and one directory, no
\* migration's up() is executed more than once, the stored applied list never
\* holds a name twice, and once both runs have ended every migration whose
\* up() completed is in the stored list.
C30_ConcurrentUpOnce ==
  (\A c \in 1..2 : calls[c].op \in {"none", "up"}) =>
    LET applied == getAppliedMigrations(mig.stored)
        executed == calls[1].ran \o calls[2].ran
    IN  /\ \A i, j \in 1..Len(executed) : i # j => executed[i] # executed[j]
        /\ \A i, j \in 1..Len(applied) : i # j => applied[i] # applied[j]
        /\ (\A c \in 1..2 : calls[c].op = "up" /\ calls[c].pc = "idle")
             => \A i \in 1..Len(executed) : SeqIncludes(applied, executed[i])

\* C20: down(count), count 1 when not given, rolls back the count most
\* recently applied migrations, newest first: where it returns it has run the
\* down() of each that has a file and removed its name, so the applied list
\* has shrunk by at most count entries, for every count >= 0.
C20_DownAtMostCount ==
  [][ (mig'.ret.op = "down" /\ mig'.ret.outcome = "return") =>
        LET c == IF mig'.ret.count = None THEN 1 ELSE mig'.ret.count[1]
            before == AppliedAtCall
            after == getAppliedMigrations(mig'.stored)
            first == IF Len(before) > c THEN Len(before) - c + 1 ELSE 1
            newest == [i \in 1..(Len(before) - first + 1) |-> before[Len(before) + 1 - i]]
            HasFile(name) == \E f \in mig.dir : IsMigrationFile(f) /\ MigrationName(f) = name
        IN  /\ Len(before) - Len(after) <= c
            /\ mig'.ret.ran = SelectSeq(newest, HasFile)
            /\ Len(before) - Len(after) = Len(mig'.ret.ran)
            /\ \A i \in 1..Len(after) : after[i] = before[i]
    ]_vars

=============================================================================
